---- MODULE Spec2Model ----
(***************************************************************************)
(* Model of gptBar's browser cookie extraction                             *)
(* (src-tauri/src/auth/cookie_extractor.rs) and of the DPAPI wrapper it    *)
(* uses (src-tauri/src/security/dpapi.rs).                                 *)
(*                                                                         *)
(* Byte strings (Vec<u8>, &[u8]) are sequences of numbers 0..255.  A Rust  *)
(* String is the sequence of its UTF-8 bytes.  Results are records         *)
(* [ok, val, err, ops]: ops lists, in call order, the primitives that the  *)
(* call invoked (file reads, CryptUnprotectData, AES-GCM decryption).      *)
(***************************************************************************)
EXTENDS Integers, Sequences, FiniteSets, TLC

VARIABLES
    windows,     \* TRUE: the build is cfg(windows); FALSE: cfg(not(windows))
    envVars,     \* the environment variables that are set
    store,       \* browser -> its cookie store file (absent, or its rows)
    localState,  \* Chromium browser -> its "Local State" key-store document
    pid,         \* std::process::id() of the process
    tempFiles,   \* temporary path -> file content, for the paths that exist
    threads,     \* the threads of the process that call the extractor
    pc,          \* thread -> position of its call
    kind,        \* thread -> "any" (extract_cookies_any_browser) or "one"
    domain,      \* thread -> the domain argument of its call
    idx,         \* thread -> index in BrowserType::all() of the browser at hand
    temp,        \* thread -> temp_path of the running extract_cookies (Option)
    usedPath,    \* thread -> db_path_to_use of the running extract_cookies
    cookies,     \* thread -> the rows decoded by the running extract_cookies
    ops,         \* thread -> primitives invoked by the running extract_cookies
    attempt,     \* thread -> result of the extract_cookies that just ended
    tried,       \* thread -> per browser attempted so far, what its attempt gave
    result,      \* thread -> what the call returned
    decIn,       \* the stored value handed to decrypt_chromium_cookie
    decOut,      \* what decrypt_chromium_cookie returned for decIn
    journal,     \* browser -> the rollback journal beside its cookie store
    header,      \* thread -> the Cookie header its caller formatted (Option)
    agent,       \* a background agent: its fields and the tasks that drive it
    notif,       \* the NotificationAgent's thresholds, history and callback log
    keyring      \* the credential store behind SecureStore and its callers

vars == << windows, envVars, store, localState, pid, tempFiles, threads, pc,
           kind, domain, idx, temp, usedPath, cookies, ops, attempt, tried,
           result, decIn, decOut, journal, header, agent, notif, keyring >>

----------------------------------------------------------------------------
(* Results and errors                                                      *)

NoErr == [kind |-> "none", msg |-> ""]

MkErr(k, m) == [kind |-> k, msg |-> m]

Ok(v, o) == [ok |-> TRUE, val |-> v, err |-> NoErr, ops |-> o]

Err(e, o) == [ok |-> FALSE, val |-> << >>, err |-> e, ops |-> o]

\* CookieError::Decryption(String)
Decryption(m) == MkErr("Decryption", m)

----------------------------------------------------------------------------
(* Bytes and text                                                          *)

RECURSIVE SumSeq(_)
SumSeq(s) == IF s = << >> THEN 0 ELSE Head(s) + SumSeq(Tail(s))

Pow2(k) == 2 ^ k

\* byte b with bit k (0..7) inverted
FlipBit(b, k) == IF (b \div Pow2(k)) % 2 = 1 THEN b - Pow2(k) ELSE b + Pow2(k)

\* s with bit k of its i-th byte inverted
FlipAt(s, i, k) == [s EXCEPT ![i] = FlipBit(s[i], k)]

IsCont(b) == b >= 128 /\ b <= 191

\* Length of the well-formed UTF-8 sequence that starts at s[i]; 0 if none does.
Utf8SeqLen(s, i) ==
    LET n == Len(s)
        b == s[i]
        c1 == IF i + 1 <= n THEN s[i + 1] ELSE 0
        c2 == IF i + 2 <= n THEN s[i + 2] ELSE 0
        c3 == IF i + 3 <= n THEN s[i + 3] ELSE 0
    IN  IF b <= 127 THEN 1
        ELSE IF b >= 194 /\ b <= 223
             THEN (IF IsCont(c1) THEN 2 ELSE 0)
        ELSE IF b = 224
             THEN (IF c1 >= 160 /\ c1 <= 191 /\ IsCont(c2) THEN 3 ELSE 0)
        ELSE IF b = 237
             THEN (IF c1 >= 128 /\ c1 <= 159 /\ IsCont(c2) THEN 3 ELSE 0)
        ELSE IF b >= 225 /\ b <= 239
             THEN (IF IsCont(c1) /\ IsCont(c2) THEN 3 ELSE 0)
        ELSE IF b = 240
             THEN (IF c1 >= 144 /\ c1 <= 191 /\ IsCont(c2) /\ IsCont(c3)
                   THEN 4 ELSE 0)
        ELSE IF b >= 241 /\ b <= 243
             THEN (IF IsCont(c1) /\ IsCont(c2) /\ IsCont(c3) THEN 4 ELSE 0)
        ELSE IF b = 244
             THEN (IF c1 >= 128 /\ c1 <= 143 /\ IsCont(c2) /\ IsCont(c3)
                   THEN 4 ELSE 0)
        ELSE 0

RECURSIVE Utf8From(_, _)
Utf8From(s, i) ==
    IF i > Len(s) THEN TRUE
    ELSE LET k == Utf8SeqLen(s, i)
         IN  IF k = 0 THEN FALSE ELSE Utf8From(s, i + k)

\* String::from_utf8(bytes).is_ok()
IsUtf8(s) == Utf8From(s, 1)

\* String::from_utf8(bytes).map_err(|e| CookieError::Decryption("UTF-8 error"))
from_utf8(bytes, o) ==
    IF IsUtf8(bytes) THEN Ok(bytes, o) ELSE Err(Decryption("UTF-8 error"), o)

----------------------------------------------------------------------------
(* base64 (STANDARD engine): a text is a sequence of alphabet indices      *)
(* 0..63, B64Pad for '=', and any other number for a character outside     *)
(* the alphabet.                                                           *)

B64Pad == 64

PadCount(s) ==
    IF Len(s) >= 2 /\ s[Len(s)] = B64Pad /\ s[Len(s) - 1] = B64Pad THEN 2
    ELSE IF Len(s) >= 1 /\ s[Len(s)] = B64Pad THEN 1
    ELSE 0

Sextet(s, i) == IF s[i] = B64Pad THEN 0 ELSE s[i]

Group24(s, g) ==
    Sextet(s, 4 * g + 1) * 262144 + Sextet(s, 4 * g + 2) * 4096
        + Sextet(s, 4 * g + 3) * 64 + Sextet(s, 4 * g + 4)

\* decode(..).is_ok(): padded to a multiple of 4, alphabet characters only
\* before the padding, and no stray bits in the last character.
B64Valid(s) ==
    /\ Len(s) % 4 = 0
    /\ \A i \in 1..(Len(s) - PadCount(s)) : s[i] \in 0..63
    /\ PadCount(s) = 1 => s[Len(s) - 1] % 4 = 0
    /\ PadCount(s) = 2 => s[Len(s) - 2] % 16 = 0

Base64Decode(s) ==
    [i \in 1..((Len(s) \div 4) * 3 - PadCount(s)) |->
        (Group24(s, (i - 1) \div 3) \div Pow2(16 - 8 * ((i - 1) % 3))) % 256]

ByteOr0(b, i) == IF i <= Len(b) THEN b[i] ELSE 0

\* What the browser writes into its key-store document.
Base64Encode(b) ==
    [j \in 1..(4 * ((Len(b) + 2) \div 3)) |->
        LET g == (j - 1) \div 4
            p == (j - 1) % 4
            have == Len(b) - 3 * g
            v == ByteOr0(b, 3 * g + 1) * 65536 + ByteOr0(b, 3 * g + 2) * 256
                     + ByteOr0(b, 3 * g + 3)
        IN  IF p > have THEN B64Pad
            ELSE (v \div Pow2(6 * (3 - p))) % 64]

----------------------------------------------------------------------------
(* The operating system's user-scoped protect / unprotect primitive.  A    *)
(* protected blob is a header followed by the data, every byte moved by    *)
(* one; CryptUnprotectData rejects whatever does not carry the header.     *)

DpapiHeader == << 1, 0, 0, 0 >>

CryptProtectData(data) ==
    DpapiHeader \o [i \in 1..Len(data) |-> (data[i] + 1) % 256]

CryptUnprotectData(blob) ==
    IF Len(blob) >= Len(DpapiHeader)
           /\ SubSeq(blob, 1, Len(DpapiHeader)) = DpapiHeader
    THEN [ok |-> TRUE,
          out |-> [i \in 1..(Len(blob) - Len(DpapiHeader)) |->
                       (blob[Len(DpapiHeader) + i] + 255) % 256]]
    ELSE [ok |-> FALSE, out |-> << >>]

\* DpapiError variants, msg being their Display text
DpapiDecryptionFailed ==
    MkErr("DecryptionFailed", "DPAPI decryption failed: CryptUnprotectData failed")

DpapiMemoryError == MkErr("MemoryError", "Memory allocation error")

DpapiWindowsError ==
    MkErr("WindowsError", "Windows API error: DPAPI is only available on Windows")

\* DpapiStore::encrypt
DpapiStore_encrypt(win, data) ==
    IF ~win THEN Err(DpapiWindowsError, << >>)
    ELSE IF data = << >> THEN Ok(<< >>, << >>)
    ELSE Ok(CryptProtectData(data), << [op |-> "CryptProtectData", arg |-> data] >>)

\* DpapiStore_decrypt, were the empty input handed to CryptUnprotectData
DpapiStore_decrypt_NoEmptyShortcut(win, encrypted) ==
    IF ~win THEN Err(DpapiWindowsError, << >>)
    ELSE LET r == CryptUnprotectData(encrypted)
             o == << [op |-> "CryptUnprotectData", arg |-> encrypted] >>
         IN  IF ~r.ok THEN Err(DpapiDecryptionFailed, o)
             ELSE IF r.out = << >> THEN Err(DpapiMemoryError, o)
             ELSE Ok(r.out, o)

\* DpapiStore::decrypt
DpapiStore_decrypt(win, encrypted) ==
    IF ~win THEN Err(DpapiWindowsError, << >>)
    ELSE IF encrypted = << >> THEN Ok(<< >>, << >>)
    ELSE LET r == CryptUnprotectData(encrypted)
             o == << [op |-> "CryptUnprotectData", arg |-> encrypted] >>
         IN  IF ~r.ok THEN Err(DpapiDecryptionFailed, o)
             ELSE IF r.out = << >> THEN Err(DpapiMemoryError, o)
             ELSE Ok(r.out, o)

----------------------------------------------------------------------------
(* AES-256-GCM (crate aes_gcm), by its contract: decrypt inverts encrypt   *)
(* under the same key and nonce, and rejects an input whose 16-byte tag    *)
(* is not the tag of the ciphertext under that key and nonce.              *)

PrefixLen == 3
NonceLen == 12
TagLen == 16
KeyLen == 32
MarkerLen == 5

Mix(K, N) == (SumSeq(K) * 7 + SumSeq(N) * 13) % 256

KeyStream(K, N, i) == (Mix(K, N) + 31 * i) % 256

GcmTag(K, N, C) ==
    [j \in 1..TagLen |-> (Mix(K, N) * (2 * j + 1) + SumSeq(C) + Len(C) + j) % 256]

AesGcmEncrypt(K, N, P) ==
    LET C == [i \in 1..Len(P) |-> (P[i] + KeyStream(K, N, i)) % 256]
    IN  C \o GcmTag(K, N, C)

\* Aes256Gcm::decrypt(nonce, ciphertext_and_tag)
AesGcmDecrypt(K, N, ct) ==
    IF Len(ct) < TagLen THEN [ok |-> FALSE, out |-> << >>]
    ELSE LET C == SubSeq(ct, 1, Len(ct) - TagLen)
             T == SubSeq(ct, Len(ct) - TagLen + 1, Len(ct))
         IN  IF T # GcmTag(K, N, C) THEN [ok |-> FALSE, out |-> << >>]
             ELSE [ok |-> TRUE,
                   out |-> [i \in 1..Len(C) |->
                               (C[i] + 256 - KeyStream(K, N, i)) % 256]]

----------------------------------------------------------------------------
(* Key manager and cookie decoder                                          *)

V10 == << 118, 49, 48 >>
V11 == << 118, 49, 49 >>
DPAPI_MARKER == << 68, 80, 65, 80, 73 >>

\* local_state_paths: Chrome's Local State first, then Edge's
LocalStateOrder == << "Chrome", "Edge" >>

\* key_from_paths, were the marker of the key blob not checked
RECURSIVE key_from_paths_NoMarkerCheck(_, _, _, _)
key_from_paths_NoMarkerCheck(win, ls, i, o) ==
    IF i > Len(LocalStateOrder)
    THEN Err(Decryption("Could not find encryption key"), o)
    ELSE
      LET b == LocalStateOrder[i]
          doc == ls[b]
          o1 == Append(o, [op |-> "read_to_string", arg |-> << b >>])
      IN  IF doc.kind = "absent" THEN key_from_paths_NoMarkerCheck(win, ls, i + 1, o)
          ELSE IF doc.kind = "unreadable" THEN Err(MkErr("Io", "read_to_string"), o1)
          ELSE IF doc.kind = "badjson" THEN Err(Decryption("JSON parse error"), o1)
          ELSE IF ~doc.has_key THEN key_from_paths_NoMarkerCheck(win, ls, i + 1, o1)
          ELSE IF ~B64Valid(doc.encrypted_key) THEN Err(Decryption("Base64 error"), o1)
          ELSE
            LET ek == Base64Decode(doc.encrypted_key)
                r == DpapiStore_decrypt(win, SubSeq(ek, MarkerLen + 1, Len(ek)))
            IN  IF ~r.ok
                THEN Err(Decryption("DPAPI error: " \o r.err.msg), o1 \o r.ops)
                ELSE Ok(r.val, o1 \o r.ops)

RECURSIVE key_from_paths(_, _, _, _)
key_from_paths(win, ls, i, o) ==
    IF i > Len(LocalStateOrder)
    THEN Err(Decryption("Could not find encryption key"), o)
    ELSE
      LET b == LocalStateOrder[i]
          doc == ls[b]
          o1 == Append(o, [op |-> "read_to_string", arg |-> << b >>])
      IN  IF doc.kind = "absent" THEN key_from_paths(win, ls, i + 1, o)
          ELSE IF doc.kind = "unreadable" THEN Err(MkErr("Io", "read_to_string"), o1)
          ELSE IF doc.kind = "badjson" THEN Err(Decryption("JSON parse error"), o1)
          ELSE IF ~doc.has_key THEN key_from_paths(win, ls, i + 1, o1)
          ELSE IF ~B64Valid(doc.encrypted_key) THEN Err(Decryption("Base64 error"), o1)
          ELSE
            LET ek == Base64Decode(doc.encrypted_key)
            IN  IF Len(ek) < MarkerLen \/ SubSeq(ek, 1, MarkerLen) # DPAPI_MARKER
                THEN Err(Decryption("Invalid key format"), o1)
                ELSE LET r == DpapiStore_decrypt(win, SubSeq(ek, MarkerLen + 1, Len(ek)))
                     IN  IF ~r.ok
                         THEN Err(Decryption("DPAPI error: " \o r.err.msg), o1 \o r.ops)
                         ELSE Ok(r.val, o1 \o r.ops)

\* CookieExtractor::get_chromium_encryption_key (cfg(windows))
get_chromium_encryption_key(win, env, ls) ==
    IF "LOCALAPPDATA" \notin env THEN Err(MkErr("EnvVar", "LOCALAPPDATA"), << >>)
    ELSE key_from_paths(win, ls, 1, << >>)

\* decrypt_chromium_v10, were a tag failure answered with the empty value
decrypt_chromium_v10_EmptyOnFailure(win, env, ls, encrypted) ==
    LET key == get_chromium_encryption_key(win, env, ls)
    IN  IF ~key.ok THEN Err(key.err, key.ops)
        ELSE IF Len(encrypted) < PrefixLen + NonceLen + TagLen
        THEN Err(Decryption("Encrypted data too short"), key.ops)
        ELSE
          LET nonce_bytes == SubSeq(encrypted, PrefixLen + 1, PrefixLen + NonceLen)
              ciphertext == SubSeq(encrypted, PrefixLen + NonceLen + 1, Len(encrypted))
              o == Append(key.ops, [op |-> "aes_gcm_decrypt", arg |-> ciphertext])
              d == AesGcmDecrypt(key.val, nonce_bytes, ciphertext)
          IN  IF Len(key.val) # KeyLen THEN Err(Decryption("Invalid key"), key.ops)
              ELSE IF ~d.ok THEN Ok(<< >>, o)
              ELSE from_utf8(d.out, o)

\* decrypt_chromium_v10, were the length check <= instead of <
decrypt_chromium_v10_OffByOne(win, env, ls, encrypted) ==
    LET key == get_chromium_encryption_key(win, env, ls)
    IN  IF ~key.ok THEN Err(key.err, key.ops)
        ELSE IF Len(encrypted) <= PrefixLen + NonceLen + TagLen
        THEN Err(Decryption("Encrypted data too short"), key.ops)
        ELSE
          LET nonce_bytes == SubSeq(encrypted, PrefixLen + 1, PrefixLen + NonceLen)
              ciphertext == SubSeq(encrypted, PrefixLen + NonceLen + 1, Len(encrypted))
              o == Append(key.ops, [op |-> "aes_gcm_decrypt", arg |-> ciphertext])
              d == AesGcmDecrypt(key.val, nonce_bytes, ciphertext)
          IN  IF Len(key.val) # KeyLen THEN Err(Decryption("Invalid key"), key.ops)
              ELSE IF ~d.ok THEN Err(Decryption("AES-GCM decryption failed"), o)
              ELSE from_utf8(d.out, o)

\* CookieExtractor::decrypt_chromium_v10 (cfg(windows))
decrypt_chromium_v10(win, env, ls, encrypted) ==
    LET key == get_chromium_encryption_key(win, env, ls)
    IN  IF ~key.ok THEN Err(key.err, key.ops)
        ELSE IF Len(encrypted) < PrefixLen + NonceLen + TagLen
        THEN Err(Decryption("Encrypted data too short"), key.ops)
        ELSE
          LET nonce_bytes == SubSeq(encrypted, PrefixLen + 1, PrefixLen + NonceLen)
              ciphertext == SubSeq(encrypted, PrefixLen + NonceLen + 1, Len(encrypted))
              o == Append(key.ops, [op |-> "aes_gcm_decrypt", arg |-> ciphertext])
              d == AesGcmDecrypt(key.val, nonce_bytes, ciphertext)
          IN  IF Len(key.val) # KeyLen THEN Err(Decryption("Invalid key"), key.ops)
              ELSE IF ~d.ok THEN Err(Decryption("AES-GCM decryption failed"), o)
              ELSE from_utf8(d.out, o)

\* The branch of decrypt_chromium_cookie (cfg(windows)) that a value takes:
\* is_empty(), then len() > 3 with the prefix v10 or v11, then the rest.
route_of(encrypted) ==
    IF encrypted = << >> THEN "empty"
    ELSE IF Len(encrypted) > PrefixLen
            /\ (SubSeq(encrypted, 1, PrefixLen) = V10 \/ SubSeq(encrypted, 1, PrefixLen) = V11)
    THEN "versioned"
    ELSE "legacy"

\* decrypt_chromium_cookie, were the stored bytes handed back as text where
\* there is no Windows
decrypt_chromium_cookie_PassThrough(win, env, ls, encrypted) ==
    IF ~win THEN from_utf8(encrypted, << >>)
    ELSE IF route_of(encrypted) = "empty" THEN Ok(<< >>, << >>)
    ELSE IF route_of(encrypted) = "versioned"
    THEN decrypt_chromium_v10(win, env, ls, encrypted)
    ELSE LET r == DpapiStore_decrypt(win, encrypted)
         IN  IF ~r.ok THEN Err(Decryption(r.err.msg), r.ops)
             ELSE from_utf8(r.val, r.ops)

\* decrypt_chromium_cookie, were a value whose decoding fails on one path
\* handed to the other path
decrypt_chromium_cookie_Fallback(win, env, ls, encrypted) ==
    IF ~win THEN Err(Decryption("Cookie decryption only available on Windows"), << >>)
    ELSE IF route_of(encrypted) = "empty" THEN Ok(<< >>, << >>)
    ELSE LET a == decrypt_chromium_v10(win, env, ls, encrypted)
             r == DpapiStore_decrypt(win, encrypted)
             l == IF ~r.ok THEN Err(Decryption(r.err.msg), r.ops)
                  ELSE from_utf8(r.val, r.ops)
         IN  IF route_of(encrypted) = "versioned"
             THEN IF a.ok THEN a ELSE [l EXCEPT !.ops = a.ops \o l.ops]
             ELSE IF l.ok THEN l ELSE [a EXCEPT !.ops = l.ops \o a.ops]

\* CookieExtractor::decrypt_chromium_cookie (both cfg variants)
decrypt_chromium_cookie(win, env, ls, encrypted) ==
    IF ~win THEN Err(Decryption("Cookie decryption only available on Windows"), << >>)
    ELSE IF route_of(encrypted) = "empty" THEN Ok(<< >>, << >>)
    ELSE IF route_of(encrypted) = "versioned"
    THEN decrypt_chromium_v10(win, env, ls, encrypted)
    ELSE LET r == DpapiStore_decrypt(win, encrypted)
         IN  IF ~r.ok THEN Err(Decryption(r.err.msg), r.ops)
             ELSE from_utf8(r.val, r.ops)

----------------------------------------------------------------------------
(* Rows of a cookie store and the SQL LIKE match of the two queries        *)

\* The characters of the host names and domains that occur
Chars(s) ==
    CASE s = "example.com" -> << "e", "x", "a", "m", "p", "l", "e", ".", "c", "o", "m" >>
      [] s = ".example.com" -> << ".", "e", "x", "a", "m", "p", "l", "e", ".", "c", "o", "m" >>
      [] s = "other.com" -> << "o", "t", "h", "e", "r", ".", "c", "o", "m" >>
      [] s = "notexample.com" ->
            << "n", "o", "t", "e", "x", "a", "m", "p", "l", "e", ".", "c", "o", "m" >>
      [] s = "sub.example.com" ->
            << "s", "u", "b", ".", "e", "x", "a", "m", "p", "l", "e", ".", "c", "o", "m" >>
      [] OTHER -> << >>

Lower(ch) ==
    CASE ch = "E" -> "e"
      [] ch = "C" -> "c"
      [] ch = "S" -> "s"
      [] ch = "O" -> "o"
      [] ch = "N" -> "n"
      [] OTHER -> ch

\* SQLite's  s LIKE p : % matches any run of characters, _ any one
\* character, any other character itself, ASCII letters without case.
RECURSIVE Like(_, _)
Like(s, p) ==
    IF p = << >> THEN s = << >>
    ELSE IF Head(p) = "%"
         THEN Like(s, Tail(p)) \/ (s # << >> /\ Like(Tail(s), p))
    ELSE IF s = << >> THEN FALSE
    ELSE IF Head(p) = "_" THEN Like(Tail(s), Tail(p))
    ELSE Lower(Head(s)) = Lower(Head(p)) /\ Like(Tail(s), Tail(p))

\* WHERE host LIKE ?1 OR host LIKE ?2, with ?1 = "%{domain}", ?2 = ".{domain}"
host_matches(host, dom) ==
    \/ Like(Chars(host), << "%" >> \o Chars(dom))
    \/ Like(Chars(host), << "." >> \o Chars(dom))

\* The rows the statement yields, in table order.
query_rows(rows, dom) == SelectSeq(rows, LAMBDA r : host_matches(r.host, dom))

MkCookie(r, v) ==
    [name |-> r.name, value |-> v, domain |-> r.host, path |-> r.path,
     expires |-> r.expires, secure |-> r.secure, http_only |-> r.http_only]

\* chromium_rows, were a row that fails skipped instead of ending the loop
RECURSIVE chromium_rows_Skip(_, _, _, _, _, _)
chromium_rows_Skip(win, env, ls, rows, acc, o) ==
    IF rows = << >> THEN Ok(acc, o)
    ELSE LET r == Head(rows)
             d == decrypt_chromium_cookie(win, env, ls, r.value)
         IN  IF ~r.shape_ok \/ ~d.ok
             THEN chromium_rows_Skip(win, env, ls, Tail(rows), acc, o)
             ELSE chromium_rows_Skip(win, env, ls, Tail(rows),
                                     Append(acc, MkCookie(r, d.val)), o \o d.ops)

\* The row loop of extract_chromium_cookies: row_result?, then the decode of
\* the value, then the push.
RECURSIVE chromium_rows(_, _, _, _, _, _)
chromium_rows(win, env, ls, rows, acc, o) ==
    IF rows = << >> THEN Ok(acc, o)
    ELSE LET r == Head(rows)
             d == decrypt_chromium_cookie(win, env, ls, r.value)
         IN  IF ~r.shape_ok THEN Err(MkErr("Database", "row"), o)
             ELSE IF ~d.ok THEN Err(d.err, o \o d.ops)
             ELSE chromium_rows(win, env, ls, Tail(rows),
                                Append(acc, MkCookie(r, d.val)), o \o d.ops)

\* The row loop of extract_firefox_cookies: cookie_result?, then the push.
RECURSIVE firefox_rows(_, _, _)
firefox_rows(rows, acc, o) ==
    IF rows = << >> THEN Ok(acc, o)
    ELSE LET r == Head(rows)
         IN  IF ~r.shape_ok THEN Err(MkErr("Database", "row"), o)
             ELSE firefox_rows(Tail(rows), Append(acc, MkCookie(r, r.value)), o)

----------------------------------------------------------------------------
(* The Cookie header                                                       *)

\* The UTF-8 bytes of the cookie names that occur
NameBytes(n) ==
    CASE n = "sid" -> << 115, 105, 100 >>
      [] n = "uid" -> << 117, 105, 100 >>
      [] n = "tok" -> << 116, 111, 107 >>
      [] n = "old" -> << 111, 108, 100 >>
      [] n = "nil" -> << 110, 105, 108 >>
      [] n = "oth" -> << 111, 116, 104 >>
      [] n = "not" -> << 110, 111, 116 >>
      [] n = "bad" -> << 98, 97, 100 >>
      [] n = "ffx" -> << 102, 102, 120 >>
      [] n = "v10" -> << 118, 49, 48 >>
      [] OTHER -> << 118, 97, 108 >>

EqualsSign == << 61 >>

\* "; "
HeaderSeparator == << 59, 32 >>

\* Cookie::to_header_value: format!("{}={}", self.name, self.value)
to_header_value(c) == NameBytes(c.name) \o EqualsSign \o c.value

\* join, were the separator written after every string
RECURSIVE join_Trailing(_, _)
join_Trailing(strs, sep) ==
    IF strs = << >> THEN << >>
    ELSE strs[1] \o sep \o join_Trailing(Tail(strs), sep)

\* [String]::join(sep): the first string, then sep and a string for each
\* further one
RECURSIVE join(_, _)
join(strs, sep) ==
    IF strs = << >> THEN << >>
    ELSE IF Len(strs) = 1 THEN strs[1]
    ELSE strs[1] \o sep \o join(Tail(strs), sep)

\* CookieExtractor::format_cookie_header
format_cookie_header(cs) ==
    join([i \in 1..Len(cs) |-> to_header_value(cs[i])], HeaderSeparator)

----------------------------------------------------------------------------
(* The environment the extractor runs in                                   *)

MaxPlain == 2

\* the longest list of cookies that a caller formats
MaxCookies == 2

Browsers == << "Chrome", "Edge", "Firefox" >>

KeyChrome == [i \in 1..KeyLen |-> 7]
KeyEdge == [i \in 1..KeyLen |-> 9]
Nonce1 == [i \in 1..NonceLen |-> i]
Nonce2 == [i \in 1..NonceLen |-> 255 - i]

\* 'a', and the two bytes of U+00E9; a lone one of the two is not text
PlainBytes == { 97, 195, 169 }

RECURSIVE SeqsUpTo(_, _)
SeqsUpTo(S, n) ==
    IF n = 0 THEN { << >> }
    ELSE LET shorter == SeqsUpTo(S, n - 1)
         IN  shorter \cup { Append(s, x) : s \in shorter, x \in S }

Plaintexts == SeqsUpTo(PlainBytes, MaxPlain)

\* What a Chromium browser stores for plaintext P under key K and nonce N
EncodeVersioned(prefix, K, N, P) == prefix \o N \o AesGcmEncrypt(K, N, P)

DocAbsent == [kind |-> "absent", has_key |-> FALSE, encrypted_key |-> << >>]
DocUnreadable == [kind |-> "unreadable", has_key |-> FALSE, encrypted_key |-> << >>]
DocBadJson == [kind |-> "badjson", has_key |-> FALSE, encrypted_key |-> << >>]
DocNoKey == [kind |-> "json", has_key |-> FALSE, encrypted_key |-> << >>]
DocOfBlob(blob) == [kind |-> "json", has_key |-> TRUE, encrypted_key |-> Base64Encode(blob)]
DocKey(K) == DocOfBlob(DPAPI_MARKER \o CryptProtectData(K))

Row(n, v, h, shape) ==
    [name |-> n, value |-> v, host |-> h, path |-> "/", expires |-> 0,
     secure |-> TRUE, http_only |-> TRUE, shape_ok |-> shape]

Text_aa == << 97, 97 >>

NoStore == [present |-> FALSE, rows |-> << >>]
StoreOf(rows) == [present |-> TRUE, rows |-> rows]

GoodRow(K) == Row("sid", EncodeVersioned(V10, K, Nonce1, Text_aa), ".example.com", TRUE)
TamperedRow(K) ==
    Row("tok", FlipAt(EncodeVersioned(V10, K, Nonce1, Text_aa), PrefixLen + NonceLen + 1, 0),
        ".example.com", TRUE)
SecondRow(K) == Row("uid", EncodeVersioned(V11, K, Nonce2, Text_aa), "example.com", TRUE)
LegacyRow == Row("old", CryptProtectData(Text_aa), "example.com", TRUE)
EmptyRow == Row("nil", << >>, ".example.com", TRUE)
OtherRow == Row("oth", CryptProtectData(Text_aa), "other.com", TRUE)
LookalikeRow == Row("not", CryptProtectData(Text_aa), "notexample.com", TRUE)
BadShapeRow == Row("bad", Text_aa, ".example.com", FALSE)
PlainRow == Row("ffx", Text_aa, ".example.com", TRUE)
\* a Firefox value that reads "v10a"
PrefixedPlainRow == Row("v10", V10 \o << 97 >>, ".example.com", TRUE)

ChromeStores ==
    { NoStore,
      StoreOf(<< GoodRow(KeyChrome) >>),
      StoreOf(<< GoodRow(KeyChrome), TamperedRow(KeyChrome) >>),
      StoreOf(<< GoodRow(KeyChrome), SecondRow(KeyChrome) >>),
      StoreOf(<< OtherRow, LookalikeRow >>) }

EdgeStores ==
    { NoStore,
      StoreOf(<< GoodRow(KeyEdge) >>),
      StoreOf(<< LegacyRow, EmptyRow >>) }

FirefoxStores ==
    { NoStore,
      StoreOf(<< PlainRow >>),
      StoreOf(<< PlainRow, BadShapeRow >>),
      StoreOf(<< PlainRow, PrefixedPlainRow, OtherRow >>) }

AllVars == { "LOCALAPPDATA", "APPDATA" }

Domains == { "example.com", "sub.example.com" }

Threads == { 1, 2 }

None == [some |-> FALSE, path |-> << >>]
Some(p) == [some |-> TRUE, path |-> p]

NoResult == [ok |-> FALSE, val |-> << >>, err |-> NoErr, ops |-> << >>]

\* temp_dir.join(format!("gptbar_cookies_{}.db", std::process::id()))
temp_path(p) == << "gptbar_cookies_", p, ".db" >>

Browser(t) == Browsers[idx[t]]

IsChromium(b) == b \in { "Chrome", "Edge" }

----------------------------------------------------------------------------
(* Initial states                                                          *)

NoHeader == [some |-> FALSE, of |-> << >>, text |-> << >>]
HeaderOf(cs, h) == [some |-> TRUE, of |-> cs, text |-> h]

NoJournal == [b \in { "Chrome", "Edge", "Firefox" } |-> "none"]

\* The browsers that were interrupted in a write left a hot journal.
HotJournal == [b \in { "Chrome", "Edge", "Firefox" } |->
                  IF b = "Edge" THEN "none" ELSE "hot"]

----------------------------------------------------------------------------
(* RefreshAgent and NotificationAgent: status, cancellation token, and the *)
(* tasks that call start() and stop() on the one agent                     *)

Tasks == { 1, 2 }

\* start() and stop() calls in one behaviour
MaxAgentCalls == 4

\* runs of the periodic work that are counted
MaxWork == 2

Returned(r) == [pc |-> "idle", ret |-> r, since |-> 0]

\* An agent after new(): status Idle, a fresh CancellationToken.  cancels
\* counts the cancel() calls made so far, and since is the count a task read
\* when it called start().
NewAgent(flavour, fetch_on_start) ==
    [flavour |-> flavour, fetch_on_start |-> fetch_on_start,
     status |-> "Idle", cancelled |-> FALSE, cancels |-> 0, work |-> 0, calls |-> 0,
     task |-> [k \in Tasks |-> Returned("none")]]

NoAgent == NewAgent("refresh", TRUE)

----------------------------------------------------------------------------
(* NotificationAgent: thresholds, snapshots, last notification per         *)
(* provider, and the notify callback.  Time is counted in minutes.         *)

WarningPercent == 80
CriticalPercent == 95
DefaultCooldown == 30

Providers == << "provider-1", "provider-2" >>
ProviderSet == { Providers[i] : i \in 1..Len(Providers) }

\* max_usage of the snapshots given: below the warning threshold, at it, and
\* at the critical threshold
Usages == { 50, WarningPercent, CriticalPercent }

\* cooldowns (minutes) an agent is built with, minutes the clock runs, and
\* calls on the agent in one behaviour
MaxCooldown == 2
MaxTime == 3
MaxNotifyCalls == 4

Never == [some |-> FALSE, at |-> 0]
AtTime(t) == [some |-> TRUE, at |-> t]

NoSnapshot == [some |-> FALSE, usage |-> 0]
Snapshot_of(u) == [some |-> TRUE, usage |-> u]

NotifyCall(o, p, u) == [op |-> o, provider |-> p, usage |-> u]

\* NotificationAgent::with_thresholds: no snapshot, no notification sent, no
\* callback.  log holds the calls of the callback and the clear_history
\* calls, in order; call is the last method called.
NewNotifier(cooldown) ==
    [cooldown |-> cooldown, now |-> 0, cb |-> FALSE,
     snaps |-> [p \in ProviderSet |-> NoSnapshot],
     last |-> [p \in ProviderSet |-> Never],
     log |-> << >>, calls |-> 0, call |-> NotifyCall("new", "", 0)]

NoNotifier == NewNotifier(DefaultCooldown)

\* the level of check_and_notify
level_of(max_usage) ==
    IF max_usage >= CriticalPercent THEN "Critical"
    ELSE IF max_usage >= WarningPercent THEN "Warning"
    ELSE "None"

\* should_notify, were the cooldown one for all providers
should_notify_AnyProvider(n, provider_id) ==
    ~ \E p \in ProviderSet : n.last[p].some /\ n.now - n.last[p].at < n.cooldown

\* NotificationAgent::should_notify
should_notify(n, provider_id) ==
    IF n.last[provider_id].some /\ n.now - n.last[provider_id].at < n.cooldown
    THEN FALSE
    ELSE TRUE

\* NotificationAgent::send_notification
send_notification(n, provider_id, usage, level) ==
    [n EXCEPT !.last[provider_id] = AtTime(n.now),
              !.log = IF n.cb
                      THEN Append(@, [ev |-> "notify", provider |-> provider_id,
                                      at |-> n.now, level |-> level, usage |-> usage])
                      ELSE @]

\* NotificationAgent::check_and_notify
check_and_notify(n, provider_id, max_usage) ==
    IF level_of(max_usage) = "None" THEN n
    ELSE IF should_notify(n, provider_id)
    THEN send_notification(n, provider_id, max_usage, level_of(max_usage))
    ELSE n

\* NotificationAgent::update_snapshot
update_snapshot(n, provider_id, max_usage) ==
    check_and_notify([n EXCEPT !.snaps[provider_id] = Snapshot_of(max_usage)],
                     provider_id, max_usage)

\* the body of the sleep arm of start(): check_and_notify for each snapshot
RECURSIVE check_all(_, _)
check_all(n, i) ==
    IF i > Len(Providers) THEN n
    ELSE check_all(IF n.snaps[Providers[i]].some
                   THEN check_and_notify(n, Providers[i], n.snaps[Providers[i]].usage)
                   ELSE n,
                   i + 1)

\* NotificationAgent::clear_history
clear_history(n) ==
    [n EXCEPT !.last = [p \in ProviderSet |-> Never],
              !.log = Append(@, [ev |-> "clear", provider |-> "", at |-> n.now,
                                 level |-> "None", usage |-> 0])]

----------------------------------------------------------------------------
(* SecureStore over the credential manager: one entry per key              *)

\* keys of SecureStore::known_keys and the tokens of test_set_if_absent
Keys == { "claude-oauth", "copilot-token" }
Tokens == { "first", "second" }

\* calls on the store in one behaviour
MaxStoreCalls == 3

Absent == [some |-> FALSE, token |-> ""]
Stored(tok) == [some |-> TRUE, token |-> tok]

KeyringError(what) == MkErr("Keyring", what)

\* SecureStore::set_token; fail = "set" is a keyring error of set_password
set_token(entries, key, tok, fail) ==
    IF fail = "set"
    THEN [res |-> Err(KeyringError("set_password"), << >>), entries |-> entries]
    ELSE [res |-> Ok(TRUE, << >>), entries |-> [entries EXCEPT ![key] = Stored(tok)]]

\* SecureStore::get_token; fail = "get" is a keyring error other than NoEntry
get_token(entries, key, fail) ==
    IF fail = "get"
    THEN Err(KeyringError("get_password"), << >>)
    ELSE Ok(entries[key], << >>)

\* SecureStore::delete_token
delete_token(entries, key, fail) ==
    IF fail = "delete"
    THEN [res |-> Err(KeyringError("delete_credential"), << >>), entries |-> entries]
    ELSE [res |-> Ok(entries[key].some, << >>), entries |-> [entries EXCEPT ![key] = Absent]]

\* SecureStore::has_token
has_token(entries, key, fail) ==
    LET g == get_token(entries, key, fail)
    IN  IF ~g.ok THEN g ELSE Ok(g.val.some, << >>)

\* set_token_if_absent, were the token stored whatever the entry holds
set_token_if_absent_Overwrite(entries, key, tok, fail) ==
    LET h == has_token(entries, key, fail)
        s == set_token(entries, key, tok, fail)
    IN  IF ~h.ok THEN [res |-> h, entries |-> entries]
        ELSE IF ~s.res.ok THEN s
        ELSE [res |-> Ok(~h.val, << >>), entries |-> s.entries]

\* SecureStore::set_token_if_absent
set_token_if_absent(entries, key, tok, fail) ==
    LET h == has_token(entries, key, fail)
        s == set_token(entries, key, tok, fail)
    IN  IF ~h.ok THEN [res |-> h, entries |-> entries]
        ELSE IF h.val THEN [res |-> Ok(FALSE, << >>), entries |-> entries]
        ELSE IF ~s.res.ok THEN s
        ELSE [res |-> Ok(TRUE, << >>), entries |-> s.entries]

\* a call on the store and what it returned
StoreCall(o, key, tok, res) == [op |-> o, key |-> key, token |-> tok, res |-> res]

\* The credential manager holds no entry of the service and no call was made.
NoKeyring == [entries |-> [k \in Keys |-> Absent], hist |-> << >>]

\* The agents and the credential store are not in use.
OthersIdle ==
    /\ agent = NoAgent
    /\ notif = NoNotifier
    /\ keyring = NoKeyring

IdleThreads ==
    /\ header = [t \in Threads |-> NoHeader]
    /\ pc = [t \in Threads |-> "idle"]
    /\ kind = [t \in Threads |-> "none"]
    /\ domain = [t \in Threads |-> ""]
    /\ idx = [t \in Threads |-> 1]
    /\ temp = [t \in Threads |-> None]
    /\ usedPath = [t \in Threads |-> "none"]
    /\ cookies = [t \in Threads |-> << >>]
    /\ ops = [t \in Threads |-> << >>]
    /\ attempt = [t \in Threads |-> NoResult]
    /\ tried = [t \in Threads |-> << >>]
    /\ result = [t \in Threads |-> NoResult]

NoDecode == /\ decIn = << >>
            /\ decOut = [done |-> FALSE, res |-> NoResult, loop |-> NoResult,
                        dec |-> NoResult, enc |-> NoResult]

\* One thread calls the extractor, in any installation of the three browsers.
Init ==
    /\ windows \in BOOLEAN
    /\ envVars \in { AllVars, { "LOCALAPPDATA" } }
    /\ store \in [Chrome : ChromeStores, Edge : EdgeStores, Firefox : FirefoxStores]
    /\ localState \in [Chrome : { DocAbsent, DocKey(KeyChrome) },
                       Edge : { DocAbsent, DocKey(KeyEdge) }]
    /\ pid = 4242
    /\ tempFiles = << >>
    /\ threads = { 1 }
    /\ journal \in { NoJournal, HotJournal }
    /\ OthersIdle
    /\ IdleThreads
    /\ NoDecode

----------------------------------------------------------------------------
(* extract_cookies_any_browser and extract_cookies, one action per step    *)
(* between two accesses to the file system                                 *)

ThreadFrame(t) == UNCHANGED << windows, envVars, store, localState, pid, threads,
                               decIn, decOut, agent, notif, keyring >>

\* A thread calls extract_cookies_any_browser(dom).
CallAnyBrowser(t, dom) ==
    /\ t \in threads
    /\ pc[t] = "idle"
    /\ kind' = [kind EXCEPT ![t] = "any"]
    /\ domain' = [domain EXCEPT ![t] = dom]
    /\ idx' = [idx EXCEPT ![t] = 1]
    /\ pc' = [pc EXCEPT ![t] = "locating"]
    /\ UNCHANGED << tempFiles, temp, usedPath, cookies, ops, attempt, tried, result >>
    /\ ThreadFrame(t)
    /\ UNCHANGED << journal, header >>

\* A thread calls extract_cookies(Browsers[i], dom).
CallExtractCookies(t, i, dom) ==
    /\ t \in threads
    /\ pc[t] = "idle"
    /\ kind' = [kind EXCEPT ![t] = "one"]
    /\ domain' = [domain EXCEPT ![t] = dom]
    /\ idx' = [idx EXCEPT ![t] = i]
    /\ pc' = [pc EXCEPT ![t] = "locating"]
    /\ UNCHANGED << tempFiles, temp, usedPath, cookies, ops, attempt, tried, result >>
    /\ ThreadFrame(t)
    /\ UNCHANGED << journal, header >>

\* CookieExtractor::cookie_path, then db_path.exists()
cookie_path(env, st, b) ==
    IF "LOCALAPPDATA" \notin env THEN Err(MkErr("EnvVar", "LOCALAPPDATA"), << >>)
    ELSE IF "APPDATA" \notin env THEN Err(MkErr("EnvVar", "APPDATA"), << >>)
    ELSE IF ~st[b].present THEN Err(MkErr("DatabaseNotFound", b), << >>)
    ELSE Ok(<< b >>, << >>)

\* Locate, were the check that the store file exists missing
Locate_NoExistsCheck(t) ==
    /\ pc[t] = "locating"
    /\ LET r == cookie_path(envVars, store, Browser(t))
       IN  /\ pc' = [pc EXCEPT ![t] = IF r.err.kind = "EnvVar" THEN "attempted"
                                      ELSE "snapshotting"]
           /\ attempt' = [attempt EXCEPT ![t] = IF r.err.kind = "EnvVar" THEN r
                                                ELSE NoResult]
    /\ temp' = [temp EXCEPT ![t] = None]
    /\ usedPath' = [usedPath EXCEPT ![t] = "none"]
    /\ cookies' = [cookies EXCEPT ![t] = << >>]
    /\ ops' = [ops EXCEPT ![t] =
                  IF cookie_path(envVars, store, Browser(t)).err.kind = "EnvVar"
                  THEN << >>
                  ELSE << [op |-> "exists", arg |-> << Browser(t) >>] >>]
    /\ UNCHANGED << tempFiles, kind, domain, idx, tried, result >>
    /\ ThreadFrame(t)
    /\ UNCHANGED << journal, header >>

\* extract_cookies, up to the check that the store file exists
Locate(t) ==
    /\ pc[t] = "locating"
    /\ LET r == cookie_path(envVars, store, Browser(t))
       IN  /\ pc' = [pc EXCEPT ![t] = IF r.ok THEN "snapshotting" ELSE "attempted"]
           /\ attempt' = [attempt EXCEPT ![t] = IF r.ok THEN NoResult ELSE r]
    /\ temp' = [temp EXCEPT ![t] = None]
    /\ usedPath' = [usedPath EXCEPT ![t] = "none"]
    /\ cookies' = [cookies EXCEPT ![t] = << >>]
    /\ ops' = [ops EXCEPT ![t] =
                  IF cookie_path(envVars, store, Browser(t)).err.kind = "EnvVar"
                  THEN << >>
                  ELSE << [op |-> "exists", arg |-> << Browser(t) >>] >>]
    /\ UNCHANGED << tempFiles, kind, domain, idx, tried, result >>
    /\ ThreadFrame(t)
    /\ UNCHANGED << journal, header >>

\* Snapshot, were the copy made whatever the direct open returned
Snapshot_AlwaysCopy(t, openOk, copyOk) ==
    /\ pc[t] = "snapshotting"
    /\ LET tp == temp_path(pid)
           o1 == Append(ops[t], [op |-> "open", arg |-> << "original", IF openOk THEN "ok" ELSE "err" >>])
           o2 == Append(o1, [op |-> "copy", arg |-> << "temp" >>])
       IN  IF FALSE
           THEN /\ temp' = [temp EXCEPT ![t] = None]
                /\ usedPath' = [usedPath EXCEPT ![t] = "original"]
                /\ pc' = [pc EXCEPT ![t] = "querying"]
                /\ ops' = [ops EXCEPT ![t] = o1]
                /\ UNCHANGED << tempFiles, attempt >>
           ELSE IF copyOk
           THEN /\ tempFiles' = (tp :> [rows |-> store[Browser(t)].rows,
                                        from |-> Browser(t), by |-> t]) @@ tempFiles
                /\ temp' = [temp EXCEPT ![t] = Some(tp)]
                /\ usedPath' = [usedPath EXCEPT ![t] = "temp"]
                /\ pc' = [pc EXCEPT ![t] = "querying"]
                /\ ops' = [ops EXCEPT ![t] = o2]
                /\ UNCHANGED attempt
           ELSE /\ attempt' = [attempt EXCEPT ![t] = Err(MkErr("Io", "copy"), << >>)]
                /\ pc' = [pc EXCEPT ![t] = "attempted"]
                /\ ops' = [ops EXCEPT ![t] = o2]
                /\ UNCHANGED << tempFiles, temp, usedPath >>
    /\ UNCHANGED << kind, domain, idx, cookies, tried, result >>
    /\ ThreadFrame(t)
    /\ UNCHANGED << journal, header >>

\* copy_database_if_locked: the direct open succeeds (openOk), or the store
\* is copied to the temporary path (copyOk), or the copy fails.
Snapshot(t, openOk, copyOk) ==
    /\ pc[t] = "snapshotting"
    /\ LET tp == temp_path(pid)
           o1 == Append(ops[t], [op |-> "open", arg |-> << "original", IF openOk THEN "ok" ELSE "err" >>])
           o2 == Append(o1, [op |-> "copy", arg |-> << "temp" >>])
       IN  IF openOk
           THEN /\ temp' = [temp EXCEPT ![t] = None]
                /\ usedPath' = [usedPath EXCEPT ![t] = "original"]
                /\ pc' = [pc EXCEPT ![t] = "querying"]
                /\ ops' = [ops EXCEPT ![t] = o1]
                /\ UNCHANGED << tempFiles, attempt >>
           ELSE IF copyOk
           THEN /\ tempFiles' = (tp :> [rows |-> store[Browser(t)].rows,
                                        from |-> Browser(t), by |-> t]) @@ tempFiles
                /\ temp' = [temp EXCEPT ![t] = Some(tp)]
                /\ usedPath' = [usedPath EXCEPT ![t] = "temp"]
                /\ pc' = [pc EXCEPT ![t] = "querying"]
                /\ ops' = [ops EXCEPT ![t] = o2]
                /\ UNCHANGED attempt
           ELSE /\ attempt' = [attempt EXCEPT ![t] = Err(MkErr("Io", "copy"), << >>)]
                /\ pc' = [pc EXCEPT ![t] = "attempted"]
                /\ ops' = [ops EXCEPT ![t] = o2]
                /\ UNCHANGED << tempFiles, temp, usedPath >>
    /\ UNCHANGED << kind, domain, idx, cookies, tried, result >>
    /\ ThreadFrame(t)
    /\ UNCHANGED << journal, header >>

\* extract_rows, were the values of every browser decoded the Chromium way
extract_rows_AllChromium(win, env, ls, b, rows, dom) ==
    chromium_rows(win, env, ls, query_rows(rows, dom), << >>, << >>)

\* extract_chromium_cookies / extract_firefox_cookies on the rows of a file
\* that Connection::open and prepare accepted
extract_rows(win, env, ls, b, rows, dom) ==
    IF IsChromium(b)
    THEN chromium_rows(win, env, ls, query_rows(rows, dom), << >>, << >>)
    ELSE firefox_rows(query_rows(rows, dom), << >>, << >>)

\* The match of extract_cookies: Connection::open(db_path_to_use), the
\* query and the row loop, each error leaving extract_cookies through `?`.
\* Connection::open opens read-write and creates a missing file; the first
\* read through such a connection rolls a hot journal back into the store
\* file and deletes the journal.
Query(t, dbOk) ==
    /\ pc[t] = "querying"
    /\ LET tp == temp_path(pid)
           gone == usedPath[t] = "temp" /\ tp \notin DOMAIN tempFiles
           rows == IF usedPath[t] = "temp"
                   THEN (IF gone THEN << >> ELSE tempFiles[tp].rows)
                   ELSE store[Browser(t)].rows
           o1 == Append(ops[t], [op |-> "query", arg |-> << usedPath[t] >>])
           r == extract_rows(windows, envVars, localState, Browser(t), rows, domain[t])
       IN  /\ tempFiles' = IF gone
                           THEN (tp :> [rows |-> << >>, from |-> "none", by |-> t]) @@ tempFiles
                           ELSE tempFiles
           /\ IF gone \/ ~dbOk
              THEN /\ attempt' = [attempt EXCEPT ![t] = Err(MkErr("Database", "open"), << >>)]
                   /\ pc' = [pc EXCEPT ![t] = "attempted"]
                   /\ ops' = [ops EXCEPT ![t] = o1]
                   /\ UNCHANGED cookies
              ELSE IF ~r.ok
              THEN /\ attempt' = [attempt EXCEPT ![t] = Err(r.err, << >>)]
                   /\ pc' = [pc EXCEPT ![t] = "attempted"]
                   /\ ops' = [ops EXCEPT ![t] = o1 \o r.ops]
                   /\ UNCHANGED cookies
              ELSE /\ cookies' = [cookies EXCEPT ![t] = r.val]
                   /\ pc' = [pc EXCEPT ![t] = "cleanup"]
                   /\ ops' = [ops EXCEPT ![t] = o1 \o r.ops]
                   /\ UNCHANGED attempt
    /\ journal' = IF usedPath[t] = "original" /\ dbOk /\ journal[Browser(t)] = "hot"
                  THEN [journal EXCEPT ![Browser(t)] = "rolled_back"]
                  ELSE journal
    /\ UNCHANGED << kind, domain, idx, temp, usedPath, tried, result, header >>
    /\ ThreadFrame(t)

Without(f, x) == [y \in DOMAIN f \ { x } |-> f[y]]

\* Cleanup, were the is_empty check missing
Cleanup_NoEmptyCheck(t) ==
    /\ pc[t] = "cleanup"
    /\ tempFiles' = IF temp[t].some THEN Without(tempFiles, temp[t].path) ELSE tempFiles
    /\ ops' = [ops EXCEPT ![t] =
                  IF temp[t].some
                  THEN Append(ops[t], [op |-> "remove_file", arg |-> << "temp" >>])
                  ELSE ops[t]]
    /\ attempt' = [attempt EXCEPT ![t] = Ok(cookies[t], << >>)]
    /\ pc' = [pc EXCEPT ![t] = "attempted"]
    /\ UNCHANGED << kind, domain, idx, temp, usedPath, cookies, tried, result >>
    /\ ThreadFrame(t)
    /\ UNCHANGED << journal, header >>

\* The end of extract_cookies: remove_file(temp), then the is_empty check.
Cleanup(t) ==
    /\ pc[t] = "cleanup"
    /\ tempFiles' = IF temp[t].some THEN Without(tempFiles, temp[t].path) ELSE tempFiles
    /\ ops' = [ops EXCEPT ![t] =
                  IF temp[t].some
                  THEN Append(ops[t], [op |-> "remove_file", arg |-> << "temp" >>])
                  ELSE ops[t]]
    /\ attempt' = [attempt EXCEPT ![t] =
                      IF cookies[t] = << >>
                      THEN Err(MkErr("NoCookiesFound", domain[t]), << >>)
                      ELSE Ok(cookies[t], << >>)]
    /\ pc' = [pc EXCEPT ![t] = "attempted"]
    /\ UNCHANGED << kind, domain, idx, temp, usedPath, cookies, tried, result >>
    /\ ThreadFrame(t)
    /\ UNCHANGED << journal, header >>

\* extract_cookies returns to the caller of the single-browser form.
ReturnExtractCookies(t) ==
    /\ pc[t] = "attempted"
    /\ kind[t] = "one"
    /\ result' = [result EXCEPT ![t] = attempt[t]]
    /\ pc' = [pc EXCEPT ![t] = "returned"]
    /\ UNCHANGED << tempFiles, kind, domain, idx, temp, usedPath, cookies, ops,
                    attempt, tried >>
    /\ ThreadFrame(t)
    /\ UNCHANGED << journal, header >>

\* What one extract_cookies gave, as the loop of extract_cookies_any_browser
\* sees it
Outcome(b, r) == [browser |-> b, ok |-> r.ok, err |-> r.err.kind, val |-> r.val]

\* AnyBrowserLoop, were the error of the last browser handed on
AnyBrowserLoop_LastError(t) ==
    /\ pc[t] = "attempted"
    /\ kind[t] = "any"
    /\ tried' = [tried EXCEPT ![t] = Append(tried[t], Outcome(Browser(t), attempt[t]))]
    /\ IF attempt[t].ok
       THEN /\ result' = [result EXCEPT ![t] = Ok(attempt[t].val, << >>)]
            /\ pc' = [pc EXCEPT ![t] = "returned"]
            /\ UNCHANGED idx
       ELSE IF idx[t] < Len(Browsers)
       THEN /\ idx' = [idx EXCEPT ![t] = idx[t] + 1]
            /\ pc' = [pc EXCEPT ![t] = "locating"]
            /\ UNCHANGED result
       ELSE /\ result' = [result EXCEPT ![t] = Err(attempt[t].err, << >>)]
            /\ pc' = [pc EXCEPT ![t] = "returned"]
            /\ UNCHANGED idx
    /\ UNCHANGED << tempFiles, kind, domain, temp, usedPath, cookies, ops, attempt >>
    /\ ThreadFrame(t)
    /\ UNCHANGED << journal, header >>

\* AnyBrowserLoop, were the loop to go on after a success
AnyBrowserLoop_GoesOn(t) ==
    /\ pc[t] = "attempted"
    /\ kind[t] = "any"
    /\ tried' = [tried EXCEPT ![t] = Append(tried[t], Outcome(Browser(t), attempt[t]))]
    /\ IF idx[t] < Len(Browsers)
       THEN /\ idx' = [idx EXCEPT ![t] = idx[t] + 1]
            /\ pc' = [pc EXCEPT ![t] = "locating"]
            /\ UNCHANGED result
       ELSE /\ result' = [result EXCEPT ![t] =
                             IF attempt[t].ok THEN Ok(attempt[t].val, << >>)
                             ELSE Err(MkErr("NoCookiesFound", domain[t]), << >>)]
            /\ pc' = [pc EXCEPT ![t] = "returned"]
            /\ UNCHANGED idx
    /\ UNCHANGED << tempFiles, kind, domain, temp, usedPath, cookies, ops, attempt >>
    /\ ThreadFrame(t)
    /\ UNCHANGED << journal, header >>

\* The loop of extract_cookies_any_browser on the result of extract_cookies:
\* Ok(cookies) => return Ok(cookies), Err(_) => continue; after the loop,
\* Err(NoCookiesFound(domain)).
AnyBrowserLoop(t) ==
    /\ pc[t] = "attempted"
    /\ kind[t] = "any"
    /\ tried' = [tried EXCEPT ![t] =
                    Append(tried[t], Outcome(Browser(t), attempt[t]))]
    /\ IF attempt[t].ok
       THEN /\ result' = [result EXCEPT ![t] = Ok(attempt[t].val, << >>)]
            /\ pc' = [pc EXCEPT ![t] = "returned"]
            /\ UNCHANGED idx
       ELSE IF idx[t] < Len(Browsers)
       THEN /\ idx' = [idx EXCEPT ![t] = idx[t] + 1]
            /\ pc' = [pc EXCEPT ![t] = "locating"]
            /\ UNCHANGED result
       ELSE /\ result' = [result EXCEPT ![t] =
                             Err(MkErr("NoCookiesFound", domain[t]), << >>)]
            /\ pc' = [pc EXCEPT ![t] = "returned"]
            /\ UNCHANGED idx
    /\ UNCHANGED << tempFiles, kind, domain, temp, usedPath, cookies, ops, attempt >>
    /\ ThreadFrame(t)
    /\ UNCHANGED << journal, header >>

\* The caller formats the first n cookies it was given as a Cookie header.
FormatHeader(t, n) ==
    /\ pc[t] = "returned"
    /\ result[t].ok
    /\ n <= Len(result[t].val)
    /\ header' = [header EXCEPT ![t] =
                     HeaderOf(SubSeq(result[t].val, 1, n),
                              format_cookie_header(SubSeq(result[t].val, 1, n)))]
    /\ pc' = [pc EXCEPT ![t] = "formatted"]
    /\ UNCHANGED << tempFiles, kind, domain, idx, temp, usedPath, cookies, ops,
                    attempt, tried, result, journal >>
    /\ ThreadFrame(t)

Next ==
    \E t \in Threads :
        \/ \E dom \in Domains : CallAnyBrowser(t, dom)
        \/ \E i \in 1..Len(Browsers), dom \in Domains : CallExtractCookies(t, i, dom)
        \/ Locate(t)
        \/ \E openOk \in BOOLEAN, copyOk \in BOOLEAN : Snapshot(t, openOk, copyOk)
        \/ \E dbOk \in BOOLEAN : Query(t, dbOk)
        \/ Cleanup(t)
        \/ ReturnExtractCookies(t)
        \/ AnyBrowserLoop(t)
        \/ \E n \in 0..MaxCookies : FormatHeader(t, n)

Spec == Init /\ [][Next]_vars

----------------------------------------------------------------------------
(* Two threads of one process call the extractor at the same time.         *)

InitConc ==
    /\ windows = TRUE
    /\ envVars = AllVars
    /\ store \in [Chrome : { StoreOf(<< GoodRow(KeyChrome) >>) },
                  Edge : { StoreOf(<< LegacyRow, EmptyRow >>) },
                  Firefox : { NoStore, StoreOf(<< PlainRow >>) }]
    /\ localState = [Chrome |-> DocKey(KeyChrome), Edge |-> DocKey(KeyEdge)]
    /\ pid = 4242
    /\ tempFiles = << >>
    /\ threads = Threads
    /\ journal = NoJournal
    /\ OthersIdle
    /\ IdleThreads
    /\ NoDecode

SpecConc == InitConc /\ [][Next]_vars

----------------------------------------------------------------------------
(* The decoder on its own: a stored value, taken from the values below, is *)
(* decoded under every state of the two key-store documents.               *)

ShortKey == [i \in 1..TagLen |-> 7]

KeyDocs ==
    { DocAbsent, DocUnreadable, DocBadJson, DocNoKey,
      DocKey(KeyChrome),
      DocKey(ShortKey),
      DocOfBlob(<< 1, 2, 3, 4, 5, 6, 7 >>),
      DocOfBlob(DPAPI_MARKER \o << 9, 9, 9, 9, 9 >>),
      DocOfBlob(<< 68, 80, 65, 80 >>),
      DocOfBlob(DPAPI_MARKER),
      DocOfBlob(DPAPI_MARKER \o DpapiHeader),
      [kind |-> "json", has_key |-> TRUE, encrypted_key |-> << 3, 99, 4, 5 >>] }

ValidValues ==
    { EncodeVersioned(pre, K, N, P) :
        pre \in { V10, V11 }, K \in { KeyChrome, KeyEdge }, N \in { Nonce1, Nonce2 },
        P \in Plaintexts }

\* the text of MaxPlain letters whose stored form is tampered with
TamperBase == EncodeVersioned(V10, KeyChrome, Nonce1, [i \in 1..MaxPlain |-> 97])

\* TamperBase with one bit of its ciphertext-plus-tag inverted
TamperedValues ==
    { FlipAt(TamperBase, i, k) :
        i \in (PrefixLen + NonceLen + 1)..Len(TamperBase), k \in 0..7 }

\* v10 / v11 values shorter than prefix + nonce + tag
ShortValues ==
    { SubSeq(EncodeVersioned(pre, KeyChrome, Nonce1, << >>), 1, n) :
        pre \in { V10, V11 },
        n \in { PrefixLen, PrefixLen + 1, PrefixLen + NonceLen,
                PrefixLen + NonceLen + TagLen - 1 } }

LegacyValues ==
    { CryptProtectData(P) : P \in Plaintexts }
        \cup { << 118, 49 >>, << 118, 49, 50, 7 >>, << 9, 9, 9, 9, 9 >> }

CookieValues ==
    { << >> } \cup ValidValues \cup TamperedValues \cup ShortValues \cup LegacyValues

InitDecode ==
    /\ windows \in BOOLEAN
    /\ envVars \in { AllVars, { "APPDATA" } }
    /\ store = [Chrome |-> NoStore, Edge |-> NoStore, Firefox |-> NoStore]
    /\ localState \in [Chrome : KeyDocs, Edge : { DocAbsent, DocKey(KeyEdge) }]
    /\ pid = 4242
    /\ tempFiles = << >>
    /\ threads = { }
    /\ journal = NoJournal
    /\ OthersIdle
    /\ IdleThreads
    /\ decIn \in CookieValues
    /\ decOut = [done |-> FALSE, res |-> NoResult, loop |-> NoResult,
                        dec |-> NoResult, enc |-> NoResult]

\* decrypt_chromium_cookie(decIn), the row loop of extract_chromium_cookies
\* over three rows of which the second holds decIn, and DpapiStore::decrypt
\* and DpapiStore::encrypt of the same bytes
DecodeStoredValue ==
    /\ ~decOut.done
    /\ decOut' =
          [done |-> TRUE,
           res |-> decrypt_chromium_cookie(windows, envVars, localState, decIn),
           loop |-> chromium_rows(windows, envVars, localState,
                                  << EmptyRow, Row("val", decIn, ".example.com", TRUE),
                                     EmptyRow >>,
                                  << >>, << >>),
           dec |-> DpapiStore_decrypt(windows, decIn),
           enc |-> DpapiStore_encrypt(windows, decIn)]
    /\ UNCHANGED << windows, envVars, store, localState, pid, tempFiles, threads,
                    pc, kind, domain, idx, temp, usedPath, cookies, ops, attempt,
                    tried, result, decIn, journal, header, agent, notif, keyring >>

NextDecode == DecodeStoredValue

SpecDecode == InitDecode /\ [][NextDecode]_vars

----------------------------------------------------------------------------
(* Calls on a SecureStore, one after the other                             *)

ExtractorIdle ==
    /\ windows = TRUE
    /\ envVars = AllVars
    /\ store = [Chrome |-> NoStore, Edge |-> NoStore, Firefox |-> NoStore]
    /\ localState = [Chrome |-> DocAbsent, Edge |-> DocAbsent]
    /\ pid = 4242
    /\ tempFiles = << >>
    /\ threads = { }
    /\ journal = NoJournal
    /\ IdleThreads
    /\ NoDecode

ExtractorFrame ==
    UNCHANGED << windows, envVars, store, localState, pid, tempFiles, threads,
                 pc, kind, domain, idx, temp, usedPath, cookies, ops, attempt,
                 tried, result, decIn, decOut, journal, header >>

InitStore ==
    /\ ExtractorIdle
    /\ agent = NoAgent
    /\ notif = NoNotifier
    /\ keyring = NoKeyring

StoreStep(o, key, tok, r) ==
    /\ Len(keyring.hist) < MaxStoreCalls
    /\ keyring' = [entries |-> r.entries,
                   hist |-> Append(keyring.hist, StoreCall(o, key, tok, r.res))]
    /\ UNCHANGED << agent, notif >>
    /\ ExtractorFrame

SetTokenIfAbsent(key, tok, fail) ==
    StoreStep("set_token_if_absent", key, tok,
              set_token_if_absent(keyring.entries, key, tok, fail))

SetToken(key, tok, fail) ==
    StoreStep("set_token", key, tok, set_token(keyring.entries, key, tok, fail))

GetToken(key, fail) ==
    StoreStep("get_token", key, "",
              [res |-> get_token(keyring.entries, key, fail), entries |-> keyring.entries])

DeleteToken(key, fail) ==
    StoreStep("delete_token", key, "", delete_token(keyring.entries, key, fail))

NextStore ==
    \E key \in Keys :
        \/ \E tok \in Tokens, fail \in { "none", "get", "set" } :
              SetTokenIfAbsent(key, tok, fail)
        \/ \E tok \in Tokens, fail \in { "none", "set" } : SetToken(key, tok, fail)
        \/ \E fail \in { "none", "get" } : GetToken(key, fail)
        \/ \E fail \in { "none", "delete" } : DeleteToken(key, fail)

SpecStore == InitStore /\ [][NextStore]_vars

----------------------------------------------------------------------------
(* start() and stop() of an agent, called from tasks that run in parallel  *)

InitAgent ==
    /\ ExtractorIdle
    /\ agent \in { NewAgent("refresh", TRUE), NewAgent("refresh", FALSE),
                   NewAgent("notification", FALSE) }
    /\ notif = NoNotifier
    /\ keyring = NoKeyring

AgentFrame ==
    /\ UNCHANGED << notif, keyring >>
    /\ ExtractorFrame

At(k, p) == agent.task[k].pc = p

Goto(k, p) == [agent.task[k] EXCEPT !.pc = p]

\* AgentManager::start_agent_internal: a spawned task calls agent.start()
CallStart(k) ==
    /\ At(k, "idle")
    /\ agent.calls < MaxAgentCalls
    /\ agent' = [agent EXCEPT !.calls = @ + 1,
                              !.task[k] = [pc |-> "start_check", ret |-> "none",
                                           since |-> agent.cancels]]
    /\ AgentFrame

\* start(): status.read().await, is_running() => Err(AlreadyRunning)
StartCheck(k) ==
    /\ At(k, "start_check")
    /\ agent' = [agent EXCEPT !.task[k] =
                    IF agent.status = "Running"
                    THEN [Returned("AlreadyRunning") EXCEPT !.since = agent.task[k].since]
                    ELSE Goto(k, "start_set")]
    /\ AgentFrame

\* start(): *status.write().await = Running
StartSet(k) ==
    /\ At(k, "start_set")
    /\ agent' = [agent EXCEPT !.status = "Running",
                              !.task[k] = Goto(k, IF agent.flavour = "refresh"
                                                     /\ agent.fetch_on_start
                                                  THEN "fetch_on_start" ELSE "loop")]
    /\ AgentFrame

Worked == IF agent.work < MaxWork THEN agent.work + 1 ELSE agent.work

\* RefreshAgent::start: fetch_all() before the loop when fetch_on_start
FetchOnStart(k) ==
    /\ At(k, "fetch_on_start")
    /\ agent' = [agent EXCEPT !.work = Worked, !.task[k] = Goto(k, "loop")]
    /\ AgentFrame

\* the select! arm of the sleep: the periodic work runs
LoopTick(k) ==
    /\ At(k, "loop")
    /\ agent.work < MaxWork
    /\ agent' = [agent EXCEPT !.work = Worked]
    /\ AgentFrame

\* the select! arm of cancel_token.cancelled(): break
LoopCancelled(k) ==
    /\ At(k, "loop")
    /\ agent.cancelled
    /\ agent' = [agent EXCEPT !.task[k] = Goto(k, "start_exit")]
    /\ AgentFrame

\* start() after the loop: *status.write().await = Stopped; Ok(())
StartExit(k) ==
    /\ At(k, "start_exit")
    /\ agent' = [agent EXCEPT !.status = "Stopped",
                              !.task[k] = [Returned("Ok") EXCEPT
                                              !.since = agent.task[k].since]]
    /\ AgentFrame

\* a task calls agent.stop()
CallStop(k) ==
    /\ At(k, "idle")
    /\ agent.calls < MaxAgentCalls
    /\ agent' = [agent EXCEPT !.calls = @ + 1,
                              !.task[k] = [pc |-> "stop_check", ret |-> "none",
                                           since |-> agent.task[k].since]]
    /\ AgentFrame

\* stop(): status.read().await, !is_running() => Ok(()); else
\* cancel_token.cancel() and the sleep of 100 ms begins
StopCheck(k) ==
    /\ At(k, "stop_check")
    /\ agent' =
          IF agent.status # "Running"
          THEN [agent EXCEPT !.task[k] =
                   [Returned("Ok") EXCEPT !.since = agent.task[k].since]]
          ELSE [agent EXCEPT !.cancelled = TRUE, !.cancels = @ + 1,
                             !.task[k] = Goto(k, "stop_sleep")]
    /\ AgentFrame

\* stop() after the sleep: *status.write().await = Stopped; Ok(())
StopSet(k) ==
    /\ At(k, "stop_sleep")
    /\ agent' = [agent EXCEPT !.status = "Stopped",
                              !.task[k] = [Returned("Ok") EXCEPT
                                              !.since = agent.task[k].since]]
    /\ AgentFrame

NextAgent ==
    \E k \in Tasks :
        \/ CallStart(k)
        \/ StartCheck(k)
        \/ StartSet(k)
        \/ FetchOnStart(k)
        \/ LoopTick(k)
        \/ LoopCancelled(k)
        \/ StartExit(k)
        \/ CallStop(k)
        \/ StopCheck(k)
        \/ StopSet(k)

SpecAgent == InitAgent /\ [][NextAgent]_vars

----------------------------------------------------------------------------
(* Calls on a NotificationAgent, one after the other, as time passes       *)

InitNotify ==
    /\ ExtractorIdle
    /\ agent = NewAgent("notification", FALSE)
    /\ notif \in { NewNotifier(c) : c \in 0..MaxCooldown }
    /\ keyring = NoKeyring

NotifyStep(n, c) ==
    /\ notif.calls < MaxNotifyCalls
    /\ notif' = [n EXCEPT !.calls = notif.calls + 1, !.call = c]
    /\ UNCHANGED << agent, keyring >>
    /\ ExtractorFrame

\* NotificationAgent::on_notify
OnNotify ==
    /\ ~notif.cb
    /\ NotifyStep([notif EXCEPT !.cb = TRUE], NotifyCall("on_notify", "", 0))

UpdateSnapshot(p, u) ==
    NotifyStep(update_snapshot(notif, p, u), NotifyCall("update_snapshot", p, u))

PeriodicCheck ==
    NotifyStep(check_all(notif, 1), NotifyCall("periodic_check", "", 0))

ClearHistory ==
    NotifyStep(clear_history(notif), NotifyCall("clear_history", "", 0))

\* a minute passes on the clock of Utc::now()
MinutePasses ==
    /\ notif.now < MaxTime
    /\ notif' = [notif EXCEPT !.now = @ + 1]
    /\ UNCHANGED << agent, keyring >>
    /\ ExtractorFrame

NextNotify ==
    \/ OnNotify
    \/ \E p \in ProviderSet, u \in Usages : UpdateSnapshot(p, u)
    \/ PeriodicCheck
    \/ ClearHistory
    \/ MinutePasses

SpecNotify == InitNotify /\ [][NextNotify]_vars

----------------------------------------------------------------------------
(* Properties                                                              *)

InExtract(t) == pc[t] \in { "locating", "snapshotting", "querying", "cleanup" }

\* The plaintext that the browser stored under each cookie name of the
\* stores above
StoredPlain(n) ==
    IF n = "nil" THEN << >> ELSE IF n = "v10" THEN V10 \o << 97 >> ELSE Text_aa

PreferenceOrder == << "Chrome", "Edge", "Firefox" >>

\* C1: extract_cookies_any_browser attempts the browsers in the order
\* Chrome, Edge, Firefox; a browser is attempted only when all browsers
\* before it failed; the call returns the cookies of the first browser whose
\* extract_cookies succeeded (a non-empty list), and attempts no browser
\* after it.
C1_PreferenceOrder ==
    \A t \in threads :
        kind[t] = "any" =>
            LET n == Len(tried[t])
            IN  /\ \A j \in 1..n :
                     /\ tried[t][j].browser = PreferenceOrder[j]
                     /\ j < n => ~tried[t][j].ok
                /\ (InExtract(t) \/ pc[t] = "attempted") =>
                     /\ idx[t] = n + 1
                     /\ Browser(t) = PreferenceOrder[n + 1]
                     /\ \A j \in 1..n : ~tried[t][j].ok
                /\ (n > 0 /\ tried[t][n].ok) =>
                     /\ pc[t] \in { "returned", "formatted" }
                     /\ result[t].ok
                     /\ result[t].val = tried[t][n].val
                     /\ result[t].val # << >>
                /\ (pc[t] \in { "returned", "formatted" } /\ result[t].ok) =>
                     (n > 0 /\ tried[t][n].ok)

\* C1 witness: Chrome and Edge failed, Firefox succeeded, its cookies returned
C1_Witness ==
    \E t \in threads :
        /\ kind[t] = "any"
        /\ pc[t] = "returned"
        /\ result[t].ok
        /\ Len(tried[t]) = 3
        /\ tried[t][3].browser = "Firefox"
        /\ result[t].val[1].name = "ffx"

\* C2: the only error of extract_cookies_any_browser is
\* NoCookiesFound(domain), returned exactly when each of the three browsers
\* failed, whatever the errors of the browsers were.
C2_OnlyNoCookiesFound ==
    \A t \in threads :
        (kind[t] = "any" /\ pc[t] = "returned") =>
            /\ ~result[t].ok => result[t].err = MkErr("NoCookiesFound", domain[t])
            /\ ~result[t].ok <=>
                  (Len(tried[t]) = Len(PreferenceOrder)
                      /\ \A j \in 1..Len(tried[t]) : ~tried[t][j].ok)

\* C2 witness: a copy failure, a decryption failure and a database error
\* end in NoCookiesFound
C2_Witness ==
    \E t \in threads :
        /\ kind[t] = "any"
        /\ pc[t] = "returned"
        /\ Len(tried[t]) = 3
        /\ tried[t][1].err = "Io"
        /\ tried[t][2].err = "Decryption"
        /\ tried[t][3].err = "Database"
        /\ result[t].err.kind = "NoCookiesFound"

\* C3: extract_cookies never returns an empty list as a success; when the
\* query and the row loop end without error and no row matched, it returns
\* NoCookiesFound(domain).
C3_NoEmptySuccess ==
    /\ [](\A t \in threads : attempt[t].ok => attempt[t].val # << >>)
    /\ [][\A t \in threads :
            (pc[t] = "cleanup" /\ cookies[t] = << >> /\ pc'[t] = "attempted") =>
                attempt'[t] = Err(MkErr("NoCookiesFound", domain[t]), << >>)]_vars

\* C3 witness: the store has rows, none for the domain, and extract_cookies
\* has returned NoCookiesFound
C3_Witness ==
    \E t \in threads :
        /\ pc[t] = "attempted"
        /\ store[Browser(t)].rows # << >>
        /\ query_rows(store[Browser(t)].rows, domain[t]) = << >>
        /\ cookies[t] = << >>
        /\ attempt[t].err = MkErr("NoCookiesFound", domain[t])

\* C4: once extract_cookies has returned, with cookies or with any error,
\* the temporary copy it made of the cookie store is no longer on disk.
C4_TempRemoved ==
    \A t \in threads :
        (pc[t] \in { "attempted", "returned" } /\ temp[t].some) =>
            temp[t].path \notin DOMAIN tempFiles

\* C5: two extract_cookies calls in flight in the same process never hold
\* the same temporary snapshot path.
C5_DistinctTempPaths ==
    \A t1 \in threads, t2 \in threads :
        (t1 # t2 /\ pc[t1] \in { "querying", "cleanup" } /\ temp[t1].some
                 /\ pc[t2] \in { "querying", "cleanup" } /\ temp[t2].some) =>
            temp[t1].path # temp[t2].path

\* C6: a successful extract_cookies holds one cookie per matching row of the
\* store, in order, each with the plaintext the browser stored (for a
\* Chromium value the result of a successful decode, never the stored
\* bytes); so if a matching row cannot be read or decoded the call is an
\* error and yields no cookie.
C6_AllOrNothing ==
    \A t \in threads :
        pc[t] = "attempted" =>
            LET b == Browser(t)
                m == query_rows(store[b].rows, domain[t])
                c == attempt[t].val
            IN  /\ attempt[t].ok =>
                     /\ Len(c) = Len(m)
                     /\ \A j \in 1..Len(m) :
                          /\ m[j].shape_ok
                          /\ c[j].name = m[j].name
                          /\ c[j].value = StoredPlain(m[j].name)
                          /\ IsChromium(b) =>
                               /\ decrypt_chromium_cookie(windows, envVars, localState,
                                                          m[j].value).ok
                               /\ m[j].value # << >> => c[j].value # m[j].value
                /\ ~attempt[t].ok => attempt[t].val = << >>

\* C6 witness: the second matching row of Chrome's store fails to decode and
\* extract_cookies returns the decryption error, no cookie
C6_Witness ==
    \E t \in threads :
        /\ pc[t] = "attempted"
        /\ Browser(t) = "Chrome"
        /\ Len(query_rows(store["Chrome"].rows, domain[t])) = 2
        /\ attempt[t].err = Decryption("AES-GCM decryption failed")
        /\ attempt[t].val = << >>

HasVersionPrefix(v) ==
    Len(v) >= PrefixLen /\ (SubSeq(v, 1, PrefixLen) = V10 \/ SubSeq(v, 1, PrefixLen) = V11)

MasterKey == get_chromium_encryption_key(windows, envVars, localState)

\* The tag of a v10 / v11 value of full length does not verify under key K.
TagFails(v, K) ==
    ~AesGcmDecrypt(K, SubSeq(v, PrefixLen + 1, PrefixLen + NonceLen),
                   SubSeq(v, PrefixLen + NonceLen + 1, Len(v))).ok

\* C7: a stored Chromium value is in exactly one of the classes empty,
\* versioned (its first three bytes are v10 or v11) and legacy (the rest),
\* and the decoder takes the branch of that class; a value with the prefix
\* v10 or v11, of any length, is never handed whole to CryptUnprotectData.
C7_PrefixClassification ==
    (decOut.done /\ windows) =>
        LET class == IF decIn = << >> THEN "empty"
                     ELSE IF HasVersionPrefix(decIn) THEN "versioned"
                     ELSE "legacy"
        IN  /\ route_of(decIn) = class
            /\ HasVersionPrefix(decIn) =>
                  \A j \in 1..Len(decOut.res.ops) :
                      ~(decOut.res.ops[j].op = "CryptUnprotectData"
                            /\ decOut.res.ops[j].arg = decIn)

\* C8: a value with the prefix v10 or v11 and fewer than 3 + 12 + 16 bytes
\* is refused as too short, and neither CryptUnprotectData (the unwrapping
\* of the master key included) nor AES-GCM decryption is invoked for it.
C8_ShortValueNoDecryption ==
    (decOut.done /\ windows /\ HasVersionPrefix(decIn)
         /\ Len(decIn) < PrefixLen + NonceLen + TagLen) =>
        /\ ~decOut.res.ok
        /\ decOut.res.err = Decryption("Encrypted data too short")
        /\ \A j \in 1..Len(decOut.res.ops) :
              decOut.res.ops[j].op \notin { "CryptUnprotectData", "aes_gcm_decrypt" }

\* C9: when the tag of a v10 / v11 value does not verify under the master
\* key (one bit of ciphertext or tag inverted, or the value of another key),
\* the decode is the error Decryption("AES-GCM decryption failed"), with no
\* plaintext and no empty value in its place, and the row loop ends with
\* that error and no cookie.
C9_TagFailureIsError ==
    (decOut.done /\ windows /\ MasterKey.ok /\ Len(MasterKey.val) = KeyLen
         /\ HasVersionPrefix(decIn) /\ Len(decIn) >= PrefixLen + NonceLen + TagLen
         /\ (decIn \in TamperedValues \/ TagFails(decIn, MasterKey.val))) =>
        /\ ~decOut.res.ok
        /\ decOut.res.val = << >>
        /\ decOut.res.err = Decryption("AES-GCM decryption failed")
        /\ ~decOut.loop.ok
        /\ decOut.loop.val = << >>
        /\ decOut.loop.err = Decryption("AES-GCM decryption failed")

\* C9 witness: a value of Chrome's key with one bit inverted was decoded
\* under Chrome's key
C9_Witness ==
    /\ decOut.done
    /\ windows
    /\ decIn \in TamperedValues
    /\ MasterKey.ok
    /\ MasterKey.val = KeyChrome
    /\ decOut.res.err = Decryption("AES-GCM decryption failed")

\* C10: for a text P, a 32-byte key K and a 12-byte nonce N, the value
\* "v10" ++ N ++ AES-256-GCM(K, N, P) decodes to P when the master key is
\* K, the empty P (a value of 31 bytes) included.
C10_RoundTrip ==
    (decOut.done /\ windows /\ MasterKey.ok /\ Len(MasterKey.val) = KeyLen) =>
        \A P \in Plaintexts, N \in { Nonce1, Nonce2 } :
            (IsUtf8(P) /\ decIn = EncodeVersioned(V10, MasterKey.val, N, P)) =>
                (decOut.res.ok /\ decOut.res.val = P)

\* C10 witness: the empty text under Edge's key, a value of 31 bytes
C10_Witness ==
    /\ decOut.done
    /\ windows
    /\ MasterKey.ok
    /\ MasterKey.val = KeyEdge
    /\ decIn = EncodeVersioned(V10, KeyEdge, Nonce2, << >>)
    /\ Len(decIn) = PrefixLen + NonceLen + TagLen
    /\ decOut.res.ok
    /\ decOut.res.val = << >>

\* The decoded key blob of a key-store document that holds one
KeyBlob(doc) == Base64Decode(doc.encrypted_key)

HasMarker(ek) == Len(ek) >= MarkerLen /\ SubSeq(ek, 1, MarkerLen) = DPAPI_MARKER

StripMarker(ek) == SubSeq(ek, MarkerLen + 1, Len(ek))

HoldsBlob(doc) == doc.kind = "json" /\ doc.has_key /\ B64Valid(doc.encrypted_key)

UnprotectCalls(o) == { j \in 1..Len(o) : o[j].op = "CryptUnprotectData" }

ReadCalls(o, b) == { j \in 1..Len(o) : o[j].op = "read_to_string" /\ o[j].arg = << b >> }

\* C11: get_chromium_encryption_key, called by the decode of a v10 / v11
\* value, returns a key only if a key-store document holds a base64 blob
\* that starts with the 5 bytes DPAPI and DpapiStore::decrypt of the blob
\* without these 5 bytes succeeded, the key being its output; when the blob
\* of the document it read is shorter than 5 bytes or starts otherwise, it
\* returns the error "Invalid key format" and CryptUnprotectData is not called.
C11_KeyOnlyFromMarkedBlob ==
    (decOut.done /\ windows /\ route_of(decIn) = "versioned") =>
        /\ SubSeq(decOut.res.ops, 1, Len(MasterKey.ops)) = MasterKey.ops
        /\ MasterKey.ok =>
              \E b \in { "Chrome", "Edge" } :
                  /\ HoldsBlob(localState[b])
                  /\ HasMarker(KeyBlob(localState[b]))
                  /\ LET u == DpapiStore_decrypt(windows, StripMarker(KeyBlob(localState[b])))
                     IN  /\ u.ok
                         /\ MasterKey.val = u.val
                         /\ \A j \in UnprotectCalls(MasterKey.ops) :
                               MasterKey.ops[j].arg = StripMarker(KeyBlob(localState[b]))
        /\ \A b \in { "Chrome", "Edge" } :
              (ReadCalls(MasterKey.ops, b) # { } /\ HoldsBlob(localState[b])
                   /\ ~HasMarker(KeyBlob(localState[b]))) =>
                  /\ ~MasterKey.ok
                  /\ MasterKey.err = Decryption("Invalid key format")
                  /\ UnprotectCalls(MasterKey.ops) = { }
                  /\ decOut.res.err = Decryption("Invalid key format")

\* C11 witness: Chrome's document holds the 4 bytes "DPAP", a v10 value was
\* decoded and the answer is "Invalid key format"
C11_Witness ==
    /\ decOut.done
    /\ windows
    /\ route_of(decIn) = "versioned"
    /\ HoldsBlob(localState["Chrome"])
    /\ KeyBlob(localState["Chrome"]) = << 68, 80, 65, 80 >>
    /\ decOut.res.err = Decryption("Invalid key format")

\* C12: while extract_cookies decodes the cookies of Chrome or of Edge, the
\* only key-store document read is that browser's own Local State, and the
\* only key blob handed to CryptUnprotectData is the one of that document:
\* Edge's cookies are never decoded with Chrome's key, nor Chrome's with Edge's.
C12_OwnBrowserKey ==
    \A t \in threads :
        (pc[t] \in { "cleanup", "attempted" } /\ IsChromium(Browser(t))) =>
            \A j \in 1..Len(ops[t]) :
                /\ ops[t][j].op = "read_to_string" => ops[t][j].arg = << Browser(t) >>
                /\ \A b \in { "Chrome", "Edge" } :
                      (ops[t][j].op = "CryptUnprotectData" /\ HoldsBlob(localState[b])
                           /\ HasMarker(KeyBlob(localState[b]))
                           /\ ops[t][j].arg = StripMarker(KeyBlob(localState[b]))) =>
                          b = Browser(t)

\* The calls of CryptUnprotectData in o that unwrap the key of document doc
KeyUnwrapCalls(o, doc) ==
    { j \in UnprotectCalls(o) :
        HoldsBlob(doc) /\ HasMarker(KeyBlob(doc)) /\ o[j].arg = StripMarker(KeyBlob(doc)) }

\* C13: within one extract_cookies call the key-store document of a profile
\* is read at most once and CryptUnprotectData unwraps its key at most once,
\* however many v10 / v11 rows the call decodes.
C13_KeyOncePerCall ==
    \A t \in threads :
        (pc[t] \in { "cleanup", "attempted" } /\ IsChromium(Browser(t))) =>
            \A b \in { "Chrome", "Edge" } :
                /\ Cardinality(ReadCalls(ops[t], b)) <= 1
                /\ Cardinality(KeyUnwrapCalls(ops[t], localState[b])) <= 1

\* C14: when the query of extract_cookies has run for the domain example.com
\* or sub.example.com, every stored row of host .example.com is among the
\* cookies and no row of host other.com is (for Chrome, Edge and Firefox).
C14_ParentDomainMatch ==
    \A t \in threads :
        (pc[t] = "cleanup" /\ domain[t] \in { "example.com", "sub.example.com" }) =>
            LET rows == store[Browser(t)].rows
            IN  /\ \A i \in 1..Len(rows) :
                      rows[i].host = ".example.com" =>
                          \E j \in 1..Len(cookies[t]) :
                              /\ cookies[t][j].name = rows[i].name
                              /\ cookies[t][j].domain = ".example.com"
                /\ \A j \in 1..Len(cookies[t]) : cookies[t][j].domain # "other.com"

\* C15: an extraction from Firefox reads no key-store document, calls neither
\* CryptUnprotectData nor AES-GCM decryption, and when it succeeds the value
\* of each cookie is the stored value of its row, byte for byte, whatever
\* the value starts with.
C15_FirefoxPlaintext ==
    \A t \in threads :
        (pc[t] \in { "cleanup", "attempted" } /\ Browser(t) = "Firefox") =>
            LET m == query_rows(store["Firefox"].rows, domain[t])
                c == IF pc[t] = "cleanup" THEN cookies[t] ELSE attempt[t].val
            IN  /\ \A j \in 1..Len(ops[t]) :
                      ops[t][j].op \notin { "read_to_string", "CryptUnprotectData",
                                            "aes_gcm_decrypt" }
                /\ (pc[t] = "cleanup" \/ attempt[t].ok) =>
                      /\ Len(c) = Len(m)
                      /\ \A j \in 1..Len(m) :
                            c[j].name = m[j].name /\ c[j].value = m[j].value

\* C15 witness: Firefox's store holds a value that reads "v10a" and the
\* extraction returned it as it is
C15_Witness ==
    \E t \in threads :
        /\ pc[t] = "attempted"
        /\ Browser(t) = "Firefox"
        /\ windows
        /\ attempt[t].ok
        /\ Len(attempt[t].val) = 2
        /\ attempt[t].val[2].name = "v10"
        /\ attempt[t].val[2].value = V10 \o << 97 >>

\* C16: the decode of an empty stored Chromium value succeeds with the empty
\* text on every platform, and invokes nothing: no key-store read, no
\* CryptUnprotectData, no AES-GCM decryption.
C16_EmptyValueDecodes ==
    (decOut.done /\ decIn = << >>) =>
        /\ decOut.res.ok
        /\ decOut.res.val = << >>
        /\ decOut.res.ops = << >>

\* Byte-level decryption of the stored value v succeeds on Windows and gives
\* the bytes out: AES-GCM under the master key for a v10 / v11 value,
\* CryptUnprotectData for a legacy value.
DecryptedBytes(v) ==
    IF route_of(v) = "versioned"
    THEN (IF MasterKey.ok /\ Len(MasterKey.val) = KeyLen
                /\ Len(v) >= PrefixLen + NonceLen + TagLen
          THEN AesGcmDecrypt(MasterKey.val, SubSeq(v, PrefixLen + 1, PrefixLen + NonceLen),
                             SubSeq(v, PrefixLen + NonceLen + 1, Len(v)))
          ELSE [ok |-> FALSE, out |-> << >>])
    ELSE IF route_of(v) = "legacy"
    THEN (IF CryptUnprotectData(v).ok /\ CryptUnprotectData(v).out # << >>
          THEN CryptUnprotectData(v)
          ELSE [ok |-> FALSE, out |-> << >>])
    ELSE [ok |-> FALSE, out |-> << >>]

\* C17: when the bytes of a Chromium value decrypt (AES-GCM or legacy blob)
\* but are not valid UTF-8, the decode is an error whose category is not the
\* category of a decryption failure.
C17_EncodingErrorDistinct ==
    (decOut.done /\ windows /\ DecryptedBytes(decIn).ok
         /\ ~IsUtf8(DecryptedBytes(decIn).out)) =>
        /\ ~decOut.res.ok
        /\ decOut.res.err.kind # Decryption("AES-GCM decryption failed").kind
        /\ decOut.res.err.kind # Decryption(DpapiDecryptionFailed.msg).kind

\* C18 as stated: DpapiStore::decrypt and DpapiStore::encrypt of the empty
\* input succeed with the empty output and do not call the operating system.
C18_EmptyInputSucceeds ==
    (decOut.done /\ decIn = << >>) =>
        /\ decOut.dec = Ok(<< >>, << >>)
        /\ decOut.enc = Ok(<< >>, << >>)

\* C18, amended: in a Windows build DpapiStore::decrypt and DpapiStore::encrypt
\* of the empty input succeed with the empty output and do not call the
\* operating system; in any other build both return the error WindowsError,
\* again without a call.
C18_EmptyInputPerPlatform ==
    (decOut.done /\ decIn = << >>) =>
        /\ windows => (decOut.dec = Ok(<< >>, << >>) /\ decOut.enc = Ok(<< >>, << >>))
        /\ ~windows => (decOut.dec = Err(DpapiWindowsError, << >>)
                           /\ decOut.enc = Err(DpapiWindowsError, << >>))

\* C18 witness: the empty input was decrypted in a Windows build
C18_Witness ==
    /\ decOut.done
    /\ windows
    /\ decIn = << >>
    /\ decOut.dec.ok
    /\ decOut.dec.ops = << >>

\* C19: on Windows every failure of DpapiStore::decrypt, a rejected blob as
\* well as a success of the OS call with a null or zero-length output, is
\* the error DecryptionFailed.
C19_SingleDecryptionFailed ==
    (decOut.done /\ windows /\ ~decOut.dec.ok) =>
        decOut.dec.err.kind = "DecryptionFailed"

OnlyOnWindows == Decryption("Cookie decryption only available on Windows")

\* C20: in a build without the Windows primitive, DpapiStore::decrypt and
\* DpapiStore::encrypt of any stored value are the error WindowsError and the
\* decode of any Chromium value is one fixed Decryption error, whatever the
\* key-store documents hold and with no primitive invoked; an extraction from
\* Chrome or Edge whose query yields rows ends with that error and never
\* with a cookie; and extract_cookies_any_browser, after such a failure, goes
\* on to the next browser, so that it returns only after Firefox's attempt.
C20_NoPrimitivePlatform ==
    ~windows =>
      \A t \in threads :
        LET b == Browser(t)
            m == query_rows(store[b].rows, domain[t])
        IN  /\ \A i \in 1..Len(store[b].rows) :
                  LET v == store[b].rows[i].value
                  IN  /\ DpapiStore_decrypt(windows, v) = Err(DpapiWindowsError, << >>)
                      /\ DpapiStore_encrypt(windows, v) = Err(DpapiWindowsError, << >>)
                      /\ decrypt_chromium_cookie(windows, envVars, localState, v)
                            = Err(OnlyOnWindows, << >>)
            /\ (pc[t] \in { "cleanup", "attempted" } /\ IsChromium(b)) =>
                  /\ \A j \in 1..Len(ops[t]) :
                        ops[t][j].op \notin { "read_to_string", "CryptUnprotectData",
                                              "aes_gcm_decrypt" }
                  /\ pc[t] = "cleanup" => cookies[t] = << >>
                  /\ pc[t] = "attempted" =>
                        /\ ~attempt[t].ok
                        /\ (m # << >> /\ attempt[t].err.kind \notin
                                { "EnvVar", "DatabaseNotFound", "Io", "Database" }) =>
                              attempt[t].err = OnlyOnWindows
            /\ kind[t] = "any" =>
                  /\ \A j \in 1..Len(tried[t]) :
                        IsChromium(tried[t][j].browser) => ~tried[t][j].ok
                  /\ pc[t] = "returned" =>
                        /\ Len(tried[t]) = Len(Browsers)
                        /\ tried[t][Len(tried[t])].browser = "Firefox"

\* C20 witness: without Windows, Chrome's and Edge's rows failed to decode
\* and extract_cookies_any_browser returned Firefox's cookies
C20_Witness ==
    \E t \in threads :
        /\ ~windows
        /\ kind[t] = "any"
        /\ pc[t] = "returned"
        /\ Len(tried[t]) = 3
        /\ tried[t][1].err = "Decryption"
        /\ tried[t][2].err = "Decryption"
        /\ result[t].ok
        /\ result[t].val[1].name = "ffx"

\* C21: no step of an extraction changes a browser's cookie store, the
\* journal beside it or a key-store document, and the only file a step
\* creates is the temporary snapshot of the process.
C21_BrowserStateUntouched ==
    [][/\ store' = store
       /\ localState' = localState
       /\ journal' = journal
       /\ \A p \in DOMAIN tempFiles' : p \in DOMAIN tempFiles \/ p = temp_path(pid)]_vars

\* name=value of one cookie
NameValue(c) == NameBytes(c.name) \o << 61 >> \o c.value

\* Where the name=value of the i-th cookie starts in the header of cs, less
\* one: the lengths of the ones before it, with two characters after each
RECURSIVE HeaderOffset(_, _)
HeaderOffset(cs, i) ==
    IF i = 1 THEN 0
    ELSE HeaderOffset(cs, i - 1) + Len(NameValue(cs[i - 1])) + 2

\* C22: the header that format_cookie_header gives for a list of cookies is
\* the name=value strings in list order with "; " between two neighbours and
\* nothing before the first or after the last: empty for the empty list,
\* name=value for one cookie.
C22_HeaderFormat ==
    \A t \in threads :
        header[t].some =>
            LET cs == header[t].of
                h == header[t].text
                n == Len(cs)
            IN  /\ n = 0 => h = << >>
                /\ n = 1 => h = NameValue(cs[1])
                /\ n >= 1 =>
                      /\ Len(h) = HeaderOffset(cs, n) + Len(NameValue(cs[n]))
                      /\ \A i \in 1..n :
                            SubSeq(h, HeaderOffset(cs, i) + 1,
                                   HeaderOffset(cs, i) + Len(NameValue(cs[i])))
                                = NameValue(cs[i])
                      /\ \A i \in 2..n :
                            SubSeq(h, HeaderOffset(cs, i) - 1, HeaderOffset(cs, i))
                                = << 59, 32 >>

\* C22 witness: two cookies were formatted as "sid=aa; uid=aa"
C22_Witness ==
    \E t \in threads :
        /\ header[t].some
        /\ Len(header[t].of) = 2
        /\ header[t].text = << 115, 105, 100, 61, 97, 97, 59, 32, 117, 105, 100, 61, 97, 97 >>

\* The stage of extract_cookies that a recorded primitive belongs to
StageOf(o) ==
    CASE o.op = "exists" -> 1
      [] o.op \in { "open", "copy" } -> 2
      [] o.op = "query" -> 3
      [] o.op \in { "read_to_string", "CryptUnprotectData", "aes_gcm_decrypt" } -> 4
      [] OTHER -> 5

StageRank(p) ==
    CASE p = "locating" -> 1
      [] p = "snapshotting" -> 2
      [] p = "querying" -> 3
      [] p = "cleanup" -> 5
      [] p = "attempted" -> 6
      [] OTHER -> 0

OpsNamed(o, names) == { j \in 1..Len(o) : o[j].op \in names }

\* C25: in one extract_cookies call the primitives of the stages locating,
\* snapshotting, querying and decoding occur in that order, the existence
\* check, the direct open, the copy and the query at most once each; the
\* call only moves forward through its stages; a stage that fails ends the
\* call with its error before any primitive of a later stage: a missing
\* store file gives DatabaseNotFound with no open, copy or query, a failed
\* copy gives no query.
C25_StagesInOrder ==
    /\ [](\A t \in threads :
            (InExtract(t) \/ pc[t] = "attempted") =>
                /\ \A i \in 1..Len(ops[t]), j \in 1..Len(ops[t]) :
                      i < j => StageOf(ops[t][i]) <= StageOf(ops[t][j])
                /\ \A n \in { "exists", "open", "copy", "query" } :
                      Cardinality(OpsNamed(ops[t], { n })) <= 1
                /\ pc[t] \in { "snapshotting", "querying", "cleanup" } =>
                      store[Browser(t)].present
                /\ (pc[t] = "attempted" /\ ~store[Browser(t)].present
                        /\ attempt[t].err.kind # "EnvVar") =>
                      /\ attempt[t].err = MkErr("DatabaseNotFound", Browser(t))
                      /\ OpsNamed(ops[t], { "open", "copy", "query" }) = { }
                /\ (pc[t] = "attempted" /\ attempt[t].err = MkErr("Io", "copy")) =>
                      OpsNamed(ops[t], { "query", "read_to_string", "CryptUnprotectData",
                                         "aes_gcm_decrypt" }) = { })
    /\ [][\A t \in threads :
            (InExtract(t) /\ pc'[t] # pc[t]) =>
                /\ StageRank(pc'[t]) > StageRank(pc[t])
                /\ ~attempt'[t].ok => (pc'[t] = "attempted" \/ attempt'[t] = NoResult)]_vars

\* C25 witness: the store file is missing and the call ended with
\* DatabaseNotFound after the existence check alone
C25_Witness ==
    \E t \in threads :
        /\ pc[t] = "attempted"
        /\ ~store[Browser(t)].present
        /\ attempt[t].err.kind = "DatabaseNotFound"
        /\ Len(ops[t]) = 1
        /\ ops[t][1].op = "exists"

\* The calls of the AES-GCM path in a trace: the reads of a key store and the
\* AES-GCM decryption
AeadPathCalls(o) == OpsNamed(o, { "read_to_string", "aes_gcm_decrypt" })

\* The calls of the legacy path in a trace: CryptUnprotectData of the value v
LegacyPathCalls(o, v) ==
    { j \in 1..Len(o) : o[j].op = "CryptUnprotectData" /\ o[j].arg = v }

\* C26: the branch chosen from the first bytes of a value is the only one
\* that runs for it: a value sent to the AES-GCM path is never handed to
\* CryptUnprotectData, whether its decoding succeeds or fails, and AES-GCM
\* runs at most once for it; a value sent to the legacy path is handed to
\* CryptUnprotectData exactly once and neither a key store is read nor
\* AES-GCM run for it; an empty value runs nothing; and a failure of the
\* taken path is the result of the decoding.
C26_NoFallback ==
    (decOut.done /\ windows) =>
        LET o == decOut.res.ops
        IN  /\ route_of(decIn) = "empty" => o = << >>
            /\ route_of(decIn) = "versioned" =>
                  /\ LegacyPathCalls(o, decIn) = { }
                  /\ Cardinality(OpsNamed(o, { "aes_gcm_decrypt" })) <= 1
                  /\ decOut.res = decrypt_chromium_v10(windows, envVars, localState, decIn)
            /\ route_of(decIn) = "legacy" =>
                  /\ AeadPathCalls(o) = { }
                  /\ Cardinality(LegacyPathCalls(o, decIn)) = 1
                  /\ Len(o) = 1
                  /\ ~CryptUnprotectData(decIn).ok => ~decOut.res.ok

\* C26 witness: a value encrypted under Edge's key was decoded under
\* Chrome's key, AES-GCM ran once and failed, and nothing else ran after it
C26_Witness ==
    /\ decOut.done
    /\ windows
    /\ route_of(decIn) = "versioned"
    /\ decIn \in ValidValues
    /\ MasterKey.ok
    /\ MasterKey.val = KeyChrome
    /\ ~decOut.res.ok
    /\ decOut.res.ops[Len(decOut.res.ops)].op = "aes_gcm_decrypt"

\* The direct open of the original file succeeded in a trace
OpenSucceeded(o) ==
    \E j \in 1..Len(o) : o[j].op = "open" /\ o[j].arg = << "original", "ok" >>

\* C27: the temporary copy is made only when the direct open of the
\* original file fails: after a direct open that succeeded the call made no
\* copy, holds no temporary path, left no temporary file, and its query runs
\* against the original; after one that failed the copy was made and the
\* query runs against the copy; when the copy fails the call ends with the
\* I/O error without a query, and extract_cookies_any_browser goes on to the
\* next browser in its list.
C27_CopyOnlyWhenOpenFails ==
    /\ [](\A t \in threads :
            /\ (pc[t] \in { "querying", "cleanup" }
                    \/ (pc[t] = "attempted" /\ OpsNamed(ops[t], { "open" }) # { })) =>
                  /\ OpenSucceeded(ops[t]) =>
                        /\ OpsNamed(ops[t], { "copy" }) = { }
                        /\ temp[t] = None
                        /\ usedPath[t] = "original"
                  /\ ~OpenSucceeded(ops[t]) =>
                        /\ Cardinality(OpsNamed(ops[t], { "copy" })) = 1
                        /\ (attempt[t].err # MkErr("Io", "copy")) =>
                              /\ usedPath[t] = "temp"
                              /\ temp[t] = Some(temp_path(pid))
                  /\ \A j \in OpsNamed(ops[t], { "query" }) :
                        ops[t][j].arg = << usedPath[t] >>
            /\ (pc[t] = "attempted" /\ attempt[t].err = MkErr("Io", "copy")) =>
                  /\ ~attempt[t].ok
                  /\ OpsNamed(ops[t], { "query" }) = { })
    /\ [][\A t \in threads :
            (pc[t] = "snapshotting" /\ pc'[t] # pc[t]) =>
                IF OpenSucceeded(ops'[t]) \/ pc'[t] = "attempted"
                THEN tempFiles' = tempFiles
                ELSE DOMAIN tempFiles' = DOMAIN tempFiles \cup { temp_path(pid) }]_vars
    /\ [][\A t \in threads :
            (pc[t] = "attempted" /\ attempt[t].err = MkErr("Io", "copy")
                 /\ kind[t] = "any" /\ idx[t] < Len(Browsers) /\ pc'[t] # pc[t]) =>
                /\ pc'[t] = "locating"
                /\ idx'[t] = idx[t] + 1]_vars

\* C27 witness: the copy of Chrome's store failed and extract_cookies_any_browser
\* went on to Edge, whose store opened directly and is queried in place
C27_Witness ==
    \E t \in threads :
        /\ kind[t] = "any"
        /\ Len(tried[t]) = 1
        /\ tried[t][1].browser = "Chrome"
        /\ tried[t][1].err = "Io"
        /\ Browser(t) = "Edge"
        /\ pc[t] = "querying"
        /\ usedPath[t] = "original"
        /\ tempFiles = << >>
        /\ OpenSucceeded(ops[t])

\* The host h is the domain d, the domain d after a dot, or a parent domain
\* of d after a dot
RelatedHost(h, d) ==
    LET H == Chars(h)
        D == Chars(d)
    IN  \/ H = D
        \/ H = << "." >> \o D
        \/ /\ Len(H) >= 2
           /\ H[1] = "."
           /\ Len(D) >= Len(H)
           /\ SubSeq(D, Len(D) - Len(H) + 1, Len(D)) = H

\* C28: every cookie that the query for a domain D yields, and every cookie
\* that extract_cookies returns, has a host that is D, .D or a dot-prefixed
\* parent domain of D; the host notexample.com is never among them when D is
\* example.com.
C28_NoUnrelatedHost ==
    \A t \in threads :
        /\ \A j \in 1..Len(cookies[t]) : RelatedHost(cookies[t][j].domain, domain[t])
        /\ (pc[t] = "attempted" /\ attempt[t].ok) =>
              \A j \in 1..Len(attempt[t].val) :
                  RelatedHost(attempt[t].val[j].domain, domain[t])

\* The calls of a history that name the key
CallsOn(h, key) == SelectSeq(h, LAMBDA c : c.key = key)

OnlyIfAbsentCalls(h) == \A j \in 1..Len(h) : h[j].op \in { "set_token_if_absent", "get_token" }

IfAbsentCalls(h) == SelectSeq(h, LAMBDA c : c.op = "set_token_if_absent")

StoredCalls(h) == SelectSeq(h, LAMBDA c : c.op = "set_token_if_absent" /\ c.res.ok /\ c.res.val)

\* One step of the store is a set_token_if_absent call.
IfAbsentStep ==
    /\ Len(keyring'.hist) = Len(keyring.hist) + 1
    /\ keyring'.hist[Len(keyring'.hist)].op = "set_token_if_absent"

\* C24: set_token_if_absent never overwrites: on a key that holds a token
\* it leaves every entry as it was and returns false; and on a key that holds
\* none it stores the token and returns true; so on a key that began absent
\* and saw only set_token_if_absent (and get_token) calls, the entry holds
\* the token of the first set_token_if_absent call.
C24_FirstValueKept ==
    /\ [][IfAbsentStep =>
            LET c == keyring'.hist[Len(keyring'.hist)]
            IN  IF keyring.entries[c.key].some
                THEN keyring'.entries = keyring.entries /\ c.res = Ok(FALSE, << >>)
                ELSE /\ keyring'.entries = [keyring.entries EXCEPT ![c.key] = Stored(c.token)]
                     /\ c.res = Ok(TRUE, << >>)]_vars
    /\ [](\A key \in Keys :
            LET h == CallsOn(keyring.hist, key)
            IN  (OnlyIfAbsentCalls(h) /\ IfAbsentCalls(h) # << >>) =>
                    keyring.entries[key] = Stored(IfAbsentCalls(h)[1].token))

\* C24 as the code has it: a set_token_if_absent call that the keyring lets
\* through never overwrites: on a key that holds a token it leaves every
\* entry as it was and returns Ok(false), on a key that holds none it stores
\* the token and returns Ok(true); a call that ends with a keyring error
\* leaves every entry as it was; so on a key that began absent and saw only
\* set_token_if_absent (and get_token) calls, the entry holds the token of
\* the first call that returned Ok(true), and is absent when there was none.
C24_FirstStoredValueKept ==
    /\ [][IfAbsentStep =>
            LET c == keyring'.hist[Len(keyring'.hist)]
            IN  IF ~c.res.ok
                THEN keyring'.entries = keyring.entries /\ c.res.err.kind = "Keyring"
                ELSE IF keyring.entries[c.key].some
                THEN keyring'.entries = keyring.entries /\ c.res = Ok(FALSE, << >>)
                ELSE /\ keyring'.entries = [keyring.entries EXCEPT ![c.key] = Stored(c.token)]
                     /\ c.res = Ok(TRUE, << >>)]_vars
    /\ [](\A key \in Keys :
            LET h == CallsOn(keyring.hist, key)
            IN  OnlyIfAbsentCalls(h) =>
                    keyring.entries[key] =
                        IF StoredCalls(h) = << >> THEN Absent
                        ELSE Stored(StoredCalls(h)[1].token))

\* C24 witness: "first" was stored under a key that held nothing, a later
\* call with "second" returned Ok(false), and the entry holds "first"
C24_Witness ==
    \E key \in Keys :
        LET h == CallsOn(keyring.hist, key)
        IN  /\ Len(h) = 2
            /\ h[1] = StoreCall("set_token_if_absent", key, "first", Ok(TRUE, << >>))
            /\ h[2] = StoreCall("set_token_if_absent", key, "second", Ok(FALSE, << >>))
            /\ keyring.entries[key] = Stored("first")

\* The tasks whose start() call is past the status write and has not left
\* its loop
InMainLoop == { k \in Tasks : agent.task[k].pc \in { "fetch_on_start", "loop" } }

\* C29: at any time at most one task is in the main loop of the agent, and
\* a start() call that finds another task in the main loop returns
\* AlreadyRunning.
C29_OneMainLoop ==
    Cardinality(InMainLoop) <= 1

\* C30: the loop of a start() call ends only by a cancel() that a stop()
\* made after that start() was called; a cancel() made before it was called
\* does not end it.
C30_RestartKeepsRunning ==
    [][\A k \in Tasks :
          (agent.task[k].pc = "loop" /\ agent'.task[k].pc = "start_exit") =>
              agent.cancels > agent.task[k].since]_vars

\* The positions of a log at which the callback was called for provider p
NotifiedAt(log, p) == { j \in 1..Len(log) : log[j].ev = "notify" /\ log[j].provider = p }

ClearedBetween(log, i, j) == \E c \in (i + 1)..(j - 1) : log[c].ev = "clear"

\* The step is a call that checks provider p against the thresholds with a
\* usage at or above the warning threshold.
ChecksOverThreshold(p) ==
    /\ notif'.calls = notif.calls + 1
    /\ \/ /\ notif'.call.op = "update_snapshot"
          /\ notif'.call.provider = p
          /\ notif'.call.usage >= WarningPercent
       \/ /\ notif'.call.op = "periodic_check"
          /\ notif.snaps[p].some
          /\ notif.snaps[p].usage >= WarningPercent

CallbackCalledFor(p) ==
    \E j \in (Len(notif.log) + 1)..Len(notif'.log) :
        /\ notif'.log[j].ev = "notify"
        /\ notif'.log[j].provider = p
        /\ notif'.log[j].at = notif.now

\* C23: the callback is called for a provider only with a usage at or above
\* the warning threshold, and two calls of the callback for the same provider
\* with no clear_history between them are at least one cooldown apart; a
\* check of a provider at or above the threshold calls the callback, once,
\* whenever that provider itself was not notified within the cooldown,
\* whatever was sent for the other providers; and after clear_history the
\* next update at or above the threshold calls the callback.
C23_ThrottlePerProvider ==
    /\ [](\A p \in ProviderSet :
            /\ \A i \in NotifiedAt(notif.log, p) : notif.log[i].usage >= WarningPercent
            /\ \A i \in NotifiedAt(notif.log, p), j \in NotifiedAt(notif.log, p) :
                  i < j => \/ notif.log[j].at - notif.log[i].at >= notif.cooldown
                           \/ ClearedBetween(notif.log, i, j))
    /\ [][\A p \in ProviderSet :
            (ChecksOverThreshold(p) /\ notif.cb) =>
                IF notif.last[p].some /\ notif.now - notif.last[p].at < notif.cooldown
                THEN ~CallbackCalledFor(p)
                ELSE /\ CallbackCalledFor(p)
                     /\ Cardinality(NotifiedAt(notif'.log, p))
                            = Cardinality(NotifiedAt(notif.log, p)) + 1]_vars
    /\ [][\A p \in ProviderSet :
            (notif.call.op = "clear_history" /\ notif.cb /\ ChecksOverThreshold(p)) =>
                CallbackCalledFor(p)]_vars

\* C23 witness: within one minute the callback was called for provider-1,
\* then for provider-2, and a further update of provider-1 above the
\* threshold called nothing
C23_Witness ==
    /\ notif.cooldown > 0
    /\ Len(notif.log) = 2
    /\ notif.log[1].ev = "notify"
    /\ notif.log[1].provider = "provider-1"
    /\ notif.log[2].ev = "notify"
    /\ notif.log[2].provider = "provider-2"
    /\ notif.log[2].at = notif.log[1].at
    /\ notif.call = NotifyCall("update_snapshot", "provider-1", CriticalPercent)
    /\ notif.calls = 4

====
